---------------------------- MODULE Spec2Model ----------------------------
(***************************************************************************)
(* The API gateway of the shopping-list microservices: its per-service     *)
(* circuit breaker (isCircuitOpen / recordFailure / resetCircuitBreaker)   *)
(* and its reverse proxy (proxyRequest), as a state machine.               *)
(*                                                                         *)
(* The gateway is one Node.js process: a handler runs without interruption *)
(* until it awaits, so proxyRequest is two atomic steps, the part before   *)
(* `await axios(config)` (ProxyStart) and the part after it                *)
(* (ProxyComplete).  Any number of requests may be awaiting at once.       *)
(***************************************************************************)
EXTENDS Integers, Sequences, FiniteSets, Bags, TLC

(***************************************************************************)
(* Program constants.                                                      *)
(***************************************************************************)
\* the three names proxyRequest is called with (setupRoutes)
ServiceNames == {"user-service", "item-service", "list-service"}

\* `Date.now() - breaker.lastFailure < 300000`
Cooldown == 300000

\* `if (breaker.failures >= 3)`
Threshold == 3

\* `timeout: 10000` of the axios config
Timeout == 10000

\* `validateStatus: status => status < 500`
ServerErrorFloor == 500

\* messages of the gateway's own responses
MsgCircuitOpen == "Servico temporariamente indisponivel"
MsgNotFound == "Servico nao encontrado"
MsgUnavailable == "Servico indisponivel"
MsgInternal == "Erro interno do gateway"

(***************************************************************************)
(* Bounds of the model.                                                    *)
(***************************************************************************)
\* inbound requests handled in one behaviour of Spec
MaxRequests == 4

\* inbound requests handled in one behaviour of SpecProxy
MaxProxyRequests == 2

\* clock advances in one behaviour
MaxAdvances == 2

(***************************************************************************)
(* What a downstream service can answer.  A body on the wire is a content  *)
(* together with whether that content is a JSON document.                  *)
(***************************************************************************)
DownstreamStatuses == {404, 500}

WireBodies ==
    { [json |-> TRUE, text |-> <<"{}">>],
      [json |-> FALSE, text |-> <<"Cannot DELETE /items/1">>] }

NoBody == [json |-> FALSE, text |-> <<>>]

\* error codes of a call that ended without a response before the timer
ConnectErrorCodes == {"ECONNREFUSED", "ETIMEDOUT"}

VARIABLES
    circuitBreakers,  \* this.circuitBreakers: the Map name -> breaker object
    registered,       \* history: the names registered and not unregistered since
    now,              \* Date.now(), in ms since the gateway started
    inflight,         \* the bag of requests awaiting their axios call
    nreq,             \* inbound requests handled so far
    nadv,             \* clock advances so far
    last,             \* what the latest proxyRequest step did and answered
    streak            \* history: per service, the failures recorded since its
                      \* last recorded success or auto-recovery

\* the state of the gateway
gatewayVars == <<circuitBreakers, registered, now, inflight, nreq, nadv, last, streak>>

VARIABLES
    list,         \* list service: the stored list of one owner
    handlers,     \* list service: the requests for that list, in order of arrival
    connection,   \* shared/rabbitmq: the module's connection, null or a connection
    channel,      \* shared/rabbitmq: the module's channel, null or a channel
    conns,        \* the publisher's broker connections: the open ones, and the
                  \* ones that carry the module's 'error' and 'close' listeners
    publishes,    \* the calls of publish, in order
    queues,       \* broker: the queue of every bound consumer instance
    workers,      \* the consumer instances
    callback,     \* the latest run of a consume callback
    nsent         \* broker: the messages handed to the exchange so far

\* the state of the list service, the publisher, the broker and the workers
eventVars ==
    <<list, handlers, connection, channel, conns, publishes, queues, workers,
      callback, nsent>>

VARIABLES
    services,     \* shared/serviceRegistry: the entries, name -> descriptor
    monitor,      \* gateway: the timers of startHealthChecks and the run they started
    healthCall    \* the latest call of updateHealth and what it was made for

\* the state of the registry entries and of the health monitor
healthVars == <<services, monitor, healthCall>>

VARIABLES
    dashboard,    \* gateway: the request for GET /api/dashboard being handled
    catalog,      \* item service: the stored items
    itemHandlers, \* item service: the requests for POST /items and PUT /items/:id
    visitors,     \* list service: the requests for /lists/:id that do not carry
                  \* the owner's token, in order of arrival
    forwarded,    \* gateway: the latest inbound URL and what was sent for it
    users,        \* user service: the stored users, in order of creation
    userHandlers  \* user service: the requests for POST /auth/register and
                  \* PUT /users/:id, in order of arrival

\* the state of the dashboard handler, of the item service and of the
\* middlewares of the list service
serviceVars ==
    <<dashboard, catalog, itemHandlers, visitors, forwarded, users, userHandlers>>

vars == <<circuitBreakers, registered, now, inflight, nreq, nadv, last, streak,
          list, handlers, connection, channel, conns, publishes, queues, workers,
          callback, nsent, services, monitor, healthCall,
          dashboard, catalog, itemHandlers, visitors, forwarded, users,
          userHandlers>>


(***************************************************************************)
(* The circuit breaker.  The Map is a function whose domain is the set of  *)
(* keys it holds; each operator takes the Map and returns the Map it       *)
(* leaves behind.                                                          *)
(***************************************************************************)
\* Map.prototype.set
MapSet(cb, s, breaker) ==
    [x \in (DOMAIN cb) \cup {s} |-> IF x = s THEN breaker ELSE cb[x]]

\* isCircuitOpen with a recovery that clears the flag and keeps the count
isCircuitOpen_KeepsCount(cb, s, t) ==
    LET breaker == IF s \in DOMAIN cb
                     THEN cb[s]
                     ELSE [failures |-> 0, isOpen |-> FALSE, lastFailure |-> 0]
    IN  IF breaker.isOpen /\ t - breaker.lastFailure < Cooldown
          THEN [result |-> TRUE, breakers |-> cb]
          ELSE IF breaker.isOpen
                 THEN [result |-> FALSE,
                       breakers |-> MapSet(cb, s, [breaker EXCEPT !.isOpen = FALSE])]
                 ELSE [result |-> FALSE, breakers |-> cb]

\* isCircuitOpen that restarts the cooldown whenever it answers true
isCircuitOpen_ExtendsCooldown(cb, s, t) ==
    LET breaker == IF s \in DOMAIN cb
                     THEN cb[s]
                     ELSE [failures |-> 0, isOpen |-> FALSE, lastFailure |-> 0]
    IN  IF breaker.isOpen /\ t - breaker.lastFailure < Cooldown
          THEN [result |-> TRUE,
                breakers |-> MapSet(cb, s, [breaker EXCEPT !.lastFailure = t])]
          ELSE IF breaker.isOpen
                 THEN [result |-> FALSE,
                       breakers |-> MapSet(cb, s,
                           [breaker EXCEPT !.isOpen = FALSE, !.failures = 0])]
                 ELSE [result |-> FALSE, breakers |-> cb]

\* isCircuitOpen(serviceName): the boolean it returns and the Map afterwards
isCircuitOpen(cb, s, t) ==
    LET breaker == IF s \in DOMAIN cb
                     THEN cb[s]
                     ELSE [failures |-> 0, isOpen |-> FALSE, lastFailure |-> 0]
    IN  IF breaker.isOpen /\ t - breaker.lastFailure < Cooldown
          THEN [result |-> TRUE, breakers |-> cb]
          ELSE IF breaker.isOpen
                 THEN [result |-> FALSE,
                       breakers |-> MapSet(cb, s,
                           [breaker EXCEPT !.isOpen = FALSE, !.failures = 0])]
                 ELSE [result |-> FALSE, breakers |-> cb]

\* recordFailure that opens past the threshold instead of at it
recordFailure_OpensLate(cb, s, t) ==
    LET breaker == IF s \in DOMAIN cb
                     THEN cb[s]
                     ELSE [failures |-> 0, isOpen |-> FALSE, lastFailure |-> 0]
        counted == [breaker EXCEPT !.failures = breaker.failures + 1,
                                   !.lastFailure = t]
    IN  MapSet(cb, s,
            IF counted.failures > Threshold
              THEN [counted EXCEPT !.isOpen = TRUE]
              ELSE counted)

\* recordFailure that counts the failure on every breaker the Map holds
recordFailure_Shared(cb, s, t) ==
    LET hit(b) == LET counted == [b EXCEPT !.failures = b.failures + 1,
                                           !.lastFailure = t]
                  IN  IF counted.failures >= Threshold
                        THEN [counted EXCEPT !.isOpen = TRUE]
                        ELSE counted
        none == [failures |-> 0, isOpen |-> FALSE, lastFailure |-> 0]
    IN  [x \in (DOMAIN cb) \cup {s} |->
            hit(IF x \in DOMAIN cb THEN cb[x] ELSE none)]

\* recordFailure that counts from a fresh object whenever it runs, as a
\* read-modify-write split across an await would
recordFailure_LostUpdate(cb, s, t) ==
    LET breaker == IF s \in DOMAIN cb
                     THEN cb[s]
                     ELSE [failures |-> 0, isOpen |-> FALSE, lastFailure |-> 0]
        counted == [breaker EXCEPT !.failures = IF breaker.failures >= 2
                                                 THEN breaker.failures
                                                 ELSE breaker.failures + 1,
                                   !.lastFailure = t]
    IN  MapSet(cb, s,
            IF counted.failures >= Threshold
              THEN [counted EXCEPT !.isOpen = TRUE]
              ELSE counted)

\* recordFailure that opens one failure before the threshold
recordFailure_OpensEarly(cb, s, t) ==
    LET breaker == IF s \in DOMAIN cb
                     THEN cb[s]
                     ELSE [failures |-> 0, isOpen |-> FALSE, lastFailure |-> 0]
        counted == [breaker EXCEPT !.failures = breaker.failures + 1,
                                   !.lastFailure = t]
    IN  MapSet(cb, s,
            IF counted.failures >= Threshold - 1
              THEN [counted EXCEPT !.isOpen = TRUE]
              ELSE counted)

\* recordFailure(serviceName)
recordFailure(cb, s, t) ==
    LET breaker == IF s \in DOMAIN cb
                     THEN cb[s]
                     ELSE [failures |-> 0, isOpen |-> FALSE, lastFailure |-> 0]
        counted == [breaker EXCEPT !.failures = breaker.failures + 1,
                                   !.lastFailure = t]
    IN  MapSet(cb, s,
            IF counted.failures >= Threshold
              THEN [counted EXCEPT !.isOpen = TRUE]
              ELSE counted)

\* resetCircuitBreaker that zeroes the count and leaves the open flag
resetCircuitBreaker_KeepsOpen(cb, s) ==
    IF s \in DOMAIN cb
      THEN [cb EXCEPT ![s] = [@ EXCEPT !.failures = 0]]
      ELSE cb

\* resetCircuitBreaker(serviceName)
resetCircuitBreaker(cb, s) ==
    IF s \in DOMAIN cb
      THEN [cb EXCEPT ![s] = [@ EXCEPT !.failures = 0, !.isOpen = FALSE]]
      ELSE cb

(***************************************************************************)
(* The service registry (shared/serviceRegistry).  `reg` is the set of the  *)
(* names that have an entry, `entries` the entries themselves.             *)
(***************************************************************************)
\* a discover that also asks for the health flag
discover_HealthyOnly(reg, s) == s \in reg /\ services[s].healthy

\* discover(name): returns the descriptor (TRUE), or throws for a name that
\* has no entry (FALSE)
discover(reg, s) == s \in reg

\* the address a service is registered with
ServiceUrl(s) ==
    CASE s = "user-service" -> "http://localhost:3001"
      [] s = "item-service" -> "http://localhost:3003"
      [] s = "list-service" -> "http://localhost:3002"

\* register(name, { url }): a new entry, healthy, not checked yet
register(entries, name, url) ==
    [n \in (DOMAIN entries) \cup {name} |->
        IF n = name THEN [url |-> url, healthy |-> TRUE, lastHealthCheck |-> 0]
                    ELSE entries[n]]

\* unregister(name): the entry is removed
unregister(entries, name) ==
    [n \in (DOMAIN entries) \ {name} |-> entries[n]]

\* an updateHealth that creates the entry it does not find
updateHealth_Upserts(entries, name, healthy, t) ==
    [n \in (DOMAIN entries) \cup {name} |->
        IF n = name
          THEN [url |-> ServiceUrl(name), healthy |-> healthy, lastHealthCheck |-> t]
          ELSE entries[n]]

\* an updateHealth that stamps every entry
updateHealth_StampsAll(entries, name, healthy, t) ==
    [n \in DOMAIN entries |->
        IF n = name
          THEN [entries[n] EXCEPT !.healthy = healthy, !.lastHealthCheck = t]
          ELSE [entries[n] EXCEPT !.lastHealthCheck = t]]

\* updateHealth(name, healthy) at time t: the flag and the check timestamp of
\* the entry; nothing for a name without an entry
updateHealth(entries, name, healthy, t) ==
    IF name \in DOMAIN entries
      THEN [entries EXCEPT ![name].healthy = healthy,
                           ![name].lastHealthCheck = t]
      ELSE entries

\* listServices(): the entries, as Object.entries sees them
listServices(entries) == entries

(***************************************************************************)
(* axios and express, as far as proxyRequest relies on them.               *)
(***************************************************************************)
\* a validateStatus that accepts every status, as axios does when the config
\* sets it to null
validateStatus_AcceptsAll(status) == status < 600

\* validateStatus of the axios config
validateStatus(status) == status < ServerErrorFloor

\* axios' response data: a body that parses as JSON becomes the parsed value,
\* any other body stays the string it is
AxiosData(body) ==
    IF body.json THEN [type |-> "object", text |-> body.text]
                 ELSE [type |-> "string", text |-> body.text]

\* res.json(data): JSON.stringify(data) sent as application/json; a parsed value
\* serialises back to its document (as JSON.stringify wrote it downstream), a
\* string to a quoted string literal
resJson(data) ==
    IF data.type = "object"
      THEN [json |-> TRUE, text |-> data.text]
      ELSE [json |-> TRUE, text |-> <<"\"">> \o data.text \o <<"\"">>]

\* the ways the awaited axios call of request r can end at time t: an HTTP
\* response, a socket error before the timer, or the 10 s timer of the config,
\* which axios reports with the code ECONNABORTED (the config sets no
\* transitional.clarifyTimeoutError)
Outcomes(r, t) ==
    { [kind |-> "response", status |-> st, body |-> b, code |-> "none"] :
        st \in DownstreamStatuses, b \in WireBodies }
    \cup { [kind |-> "error", status |-> 0, body |-> NoBody, code |-> c] :
             c \in ConnectErrorCodes }
    \cup ( IF t - r.startedAt >= Timeout
             THEN { [kind |-> "error", status |-> 0, body |-> NoBody,
                     code |-> "ECONNABORTED"] }
             ELSE {} )

\* how axios settles the promise: resolved with the response, or rejected with
\* an error that carries a code and, for a status >= 500, the response
axios(o) ==
    IF o.kind = "response" /\ validateStatus(o.status)
      THEN [resolved |-> TRUE, code |-> "none", hasResponse |-> TRUE,
            status |-> o.status, data |-> AxiosData(o.body)]
      ELSE IF o.kind = "response"
        THEN [resolved |-> FALSE, code |-> "ERR_BAD_RESPONSE", hasResponse |-> TRUE,
              status |-> o.status, data |-> AxiosData(o.body)]
        ELSE [resolved |-> FALSE, code |-> o.code, hasResponse |-> FALSE,
              status |-> 0, data |-> AxiosData(NoBody)]

(***************************************************************************)
(* The responses proxyRequest writes.                                      *)
(***************************************************************************)
GatewayBody(msg) == [json |-> TRUE, text |-> <<msg>>]

\* the circuit is open
CircuitOpenResponse ==
    [status |-> 503, message |-> MsgCircuitOpen, body |-> GatewayBody(MsgCircuitOpen)]

\* the not-found answer written with the circuit-open message
NotFoundResponse_SameMessage ==
    [status |-> 503, message |-> MsgCircuitOpen, body |-> GatewayBody(MsgCircuitOpen)]

\* discover threw
NotFoundResponse ==
    [status |-> 503, message |-> MsgNotFound, body |-> GatewayBody(MsgNotFound)]

\* the response after `await axios(config)` returned
SuccessResponse(settled) ==
    [status |-> settled.status, message |-> "", body |-> resJson(settled.data)]

\* the response of the outer catch block
CatchResponse(settled) ==
    IF settled.code = "ECONNREFUSED" \/ settled.code = "ETIMEDOUT"
      THEN [status |-> 503, message |-> MsgUnavailable,
            body |-> GatewayBody(MsgUnavailable)]
      ELSE IF settled.hasResponse
        THEN [status |-> settled.status, message |-> "",
              body |-> resJson(settled.data)]
        ELSE [status |-> 500, message |-> MsgInternal,
              body |-> GatewayBody(MsgInternal)]

\* a catch block that is also entered after a resolved call
BreakerCalls_Both(s, settled) ==
    IF settled.resolved
      THEN << [op |-> "resetCircuitBreaker", service |-> s],
              [op |-> "recordFailure", service |-> s] >>
      ELSE << [op |-> "recordFailure", service |-> s] >>

\* the breaker calls proxyRequest makes once the axios call has settled
BreakerCalls(s, settled) ==
    IF settled.resolved
      THEN << [op |-> "resetCircuitBreaker", service |-> s] >>
      ELSE << [op |-> "recordFailure", service |-> s] >>

\* the Map after the calls of `ops` were made in order at time t
RECURSIVE ApplyBreakerCalls(_, _, _)
ApplyBreakerCalls(cb, ops, t) ==
    IF ops = <<>> THEN cb
    ELSE LET c == Head(ops)
             next == IF c.op = "recordFailure"
                       THEN recordFailure(cb, c.service, t)
                       ELSE resetCircuitBreaker(cb, c.service)
         IN  ApplyBreakerCalls(next, Tail(ops), t)

(***************************************************************************)
(* The state machine.                                                      *)
(***************************************************************************)
NoOutcome == [kind |-> "none", status |-> 0, body |-> NoBody, code |-> "none"]

NoResponse == [status |-> 0, message |-> "", body |-> NoBody]

\* `last` before any request was handled
NoStep ==
    [kind |-> "none", service |-> "", circuitOpen |-> FALSE,
     wasOpen |-> FALSE, recovered |-> FALSE, discoverCalls |-> 0,
     resolved |-> FALSE, downstreamCalls |-> 0, breakerCalls |-> <<>>, outcome |-> NoOutcome,
     responded |-> FALSE, response |-> NoResponse]

\* the open flag of s's breaker, false while the Map holds none
BreakerOpen(cb, s) == s \in DOMAIN cb /\ cb[s].isOpen

\* the failure count of s's breaker, 0 while the Map holds none
Failures(cb, s) == IF s \in DOMAIN cb THEN cb[s].failures ELSE 0

\* the time of s's last recorded failure, 0 while the Map holds none
LastFailure(cb, s) == IF s \in DOMAIN cb THEN cb[s].lastFailure ELSE 0

\* JavaScript's null
null == <<>>

\* the summary of listSchema
NoSummary == [totalItems |-> 0, purchasedItems |-> 0, estimatedTotal |-> 0]

\* a message of the broker that is none
NoMessage ==
    [key |-> <<>>,
     body |-> [literal |-> "garbage",
               doc |-> [id |-> "", userId |-> "", items |-> <<>>,
                        summary |-> NoSummary]]]

\* `callback` before any message was delivered
NoCallback ==
    [instance |-> "", role |-> "", msg |-> NoMessage, threw |-> FALSE,
     awaiting |-> FALSE, calls |-> <<>>, reported |-> <<0, 0>>, email |-> "",
     lookup |-> "none"]

\* the list service with one list as POST /lists created it, the publisher
\* module as loaded, no consumer started
InitEvents ==
    /\ list = [status |-> "active", items |-> <<>>, summary |-> NoSummary]
    /\ handlers = <<>>
    /\ connection = null
    /\ channel = null
    /\ conns = [open |-> {}, listened |-> {}]
    /\ publishes = <<>>
    /\ queues = << >>
    /\ workers = << >>
    /\ callback = NoCallback
    /\ nsent = 0

\* no call of updateHealth
NoHealthCall == [by |-> "none", name |-> "", healthy |-> FALSE, outcome |-> "none"]

\* no run of the health monitor
NoRun == [kind |-> "none", todo |-> <<>>, calls |-> <<>>]

\* the registry after the constructor, the timers not yet created
InitHealth ==
    /\ services = [s \in ServiceNames |->
                     [url |-> ServiceUrl(s), healthy |-> TRUE, lastHealthCheck |-> 0]]
    /\ monitor = [started |-> FALSE, warmedUp |-> FALSE, ticks |-> 0,
                  run |-> NoRun, finished |-> NoRun]
    /\ healthCall = NoHealthCall

\* the items seedInitialItems writes, by id
SeedItems == <<[id |-> 1, name |-> "seed", category |-> "food"]>>

\* no request for the dashboard
NoDashboard ==
    [pc |-> "idle", auth |-> "", failed |-> FALSE, fetched |-> {},
     warnings |-> <<>>,
     userInfo |-> null, userLists |-> <<>>,
     listStats |-> [total |-> 0, active |-> 0, completed |-> 0, archived |-> 0],
     popularCategories |-> <<>>, status |-> 0, data |-> null]

\* no dashboard request, the item service with its seed items, no request
\* of a stranger for the list
\* the stored users once seedInitialData has run
SeedUsers == <<[id |-> 0, email |-> "admin@microservices.com"]>>

\* `forwarded` before any URL was rewritten
NoForward == [service |-> "", originalUrl |-> <<>>, url |-> <<>>, params |-> <<>>]

InitServices ==
    /\ dashboard = NoDashboard
    /\ catalog = SeedItems
    /\ itemHandlers = <<>>
    /\ visitors = <<>>
    /\ forwarded = NoForward
    /\ users = SeedUsers
    /\ userHandlers = <<>>

\* the constructor: an empty Map, the three services registered; the other
\* processes as they start
Init ==
    /\ circuitBreakers = << >>
    /\ registered = ServiceNames
    /\ now = 0
    /\ inflight = EmptyBag
    /\ nreq = 0
    /\ nadv = 0
    /\ last = NoStep
    /\ streak = [s \in ServiceNames |-> 0]
    /\ InitEvents
    /\ InitHealth
    /\ InitServices

\* proxyRequest without its isCircuitOpen guard
StartStep_Unguarded(s, q, wasOpen, resolved) ==
    [kind |-> "start", service |-> s, circuitOpen |-> q.result,
     wasOpen |-> wasOpen, recovered |-> wasOpen /\ ~q.result,
     discoverCalls |-> 1,
     resolved |-> resolved, downstreamCalls |-> IF resolved THEN 1 ELSE 0,
     breakerCalls |-> <<>>, outcome |-> NoOutcome,
     responded |-> ~resolved,
     response |-> IF ~resolved THEN NotFoundResponse ELSE NoResponse]

\* what proxyRequest(s) does up to its first await, as the step it records:
\* `q` is what isCircuitOpen returned
StartStep(s, q, wasOpen, resolved) ==
    [kind |-> "start", service |-> s, circuitOpen |-> q.result,
     wasOpen |-> wasOpen, recovered |-> wasOpen /\ ~q.result,
     discoverCalls |-> IF q.result THEN 0 ELSE 1,
     resolved |-> ~q.result /\ resolved,
     downstreamCalls |-> IF ~q.result /\ resolved THEN 1 ELSE 0,
     breakerCalls |-> <<>>, outcome |-> NoOutcome,
     responded |-> q.result \/ ~resolved,
     response |-> IF q.result THEN CircuitOpenResponse
                  ELSE IF ~resolved THEN NotFoundResponse
                  ELSE NoResponse]

\* proxyRequest(s, req, res): from its entry to `await axios(config)`
ProxyStart(s, limit) ==
    /\ nreq < limit
    /\ LET q == isCircuitOpen(circuitBreakers, s, now)
           step == StartStep(s, q, BreakerOpen(circuitBreakers, s),
                             discover(DOMAIN services, s))
       IN  /\ nreq' = nreq + 1
           /\ circuitBreakers' = q.breakers
           /\ last' = step
           /\ inflight' = IF step.downstreamCalls = 1
                            THEN inflight (+) SetToBag({[service |-> s,
                                                         startedAt |-> now]})
                            ELSE inflight
           /\ streak' = IF step.recovered THEN [streak EXCEPT ![s] = 0]
                                          ELSE streak
    /\ UNCHANGED <<registered, now, nadv>>
    /\ UNCHANGED eventVars
    /\ UNCHANGED healthVars
    /\ UNCHANGED serviceVars

\* the history after the breaker calls of `ops` were made in order
RECURSIVE StreakAfter(_, _)
StreakAfter(k, ops) ==
    IF ops = <<>> THEN k
    ELSE LET c == Head(ops)
         IN  StreakAfter([k EXCEPT ![c.service] =
                              IF c.op = "recordFailure" THEN @ + 1 ELSE 0],
                         Tail(ops))

\* a catch block that calls axios again after a failed call
CompleteStep_Retry(r, o, wasOpen) ==
    LET settled == axios(o)
    IN  [kind |-> "complete", service |-> r.service,
         circuitOpen |-> FALSE, wasOpen |-> wasOpen, recovered |-> FALSE,
         discoverCalls |-> 0, resolved |-> FALSE,
         downstreamCalls |-> IF settled.resolved THEN 0 ELSE 1,
         breakerCalls |-> BreakerCalls(r.service, settled), outcome |-> o,
         responded |-> TRUE,
         response |-> IF settled.resolved THEN SuccessResponse(settled)
                                          ELSE CatchResponse(settled)]

\* a catch block that writes no response when the error is the timeout
CompleteStep_SilentTimeout(r, o, wasOpen) ==
    LET settled == axios(o)
    IN  [kind |-> "complete", service |-> r.service,
         circuitOpen |-> FALSE, wasOpen |-> wasOpen, recovered |-> FALSE,
         discoverCalls |-> 0, resolved |-> FALSE, downstreamCalls |-> 0,
         breakerCalls |-> BreakerCalls(r.service, settled), outcome |-> o,
         responded |-> settled.code # "ECONNABORTED",
         response |-> IF settled.resolved THEN SuccessResponse(settled)
                      ELSE IF settled.code = "ECONNABORTED" THEN NoResponse
                      ELSE CatchResponse(settled)]

\* what proxyRequest does once its axios call has settled, as the step it records
CompleteStep(r, o, wasOpen) ==
    LET settled == axios(o)
    IN  [kind |-> "complete", service |-> r.service,
         circuitOpen |-> FALSE, wasOpen |-> wasOpen, recovered |-> FALSE,
         discoverCalls |-> 0, resolved |-> FALSE, downstreamCalls |-> 0,
         breakerCalls |-> BreakerCalls(r.service, settled), outcome |-> o,
         responded |-> TRUE,
         response |-> IF settled.resolved THEN SuccessResponse(settled)
                                          ELSE CatchResponse(settled)]

\* proxyRequest: from the settling of `await axios(config)` to its end
ProxyComplete(r, o) ==
    /\ BagIn(r, inflight)
    /\ LET step == CompleteStep(r, o, BreakerOpen(circuitBreakers, r.service))
       IN  /\ last' = step
           /\ circuitBreakers' =
                  ApplyBreakerCalls(circuitBreakers, step.breakerCalls, now)
           /\ streak' = StreakAfter(streak, step.breakerCalls)
    /\ inflight' = inflight (-) SetToBag({r})
    /\ UNCHANGED <<registered, now, nreq, nadv>>
    /\ UNCHANGED eventVars
    /\ UNCHANGED healthVars
    /\ UNCHANGED serviceVars

\* time passes; an axios call never stays pending past its timeout
Advance(d) ==
    /\ nadv < MaxAdvances
    /\ \A r \in BagToSet(inflight) : (now + d) - r.startedAt <= Timeout
    /\ now' = now + d
    /\ nadv' = nadv + 1
    /\ UNCHANGED <<circuitBreakers, registered, inflight, nreq, last, streak>>
    /\ UNCHANGED eventVars
    /\ UNCHANGED healthVars
    /\ UNCHANGED serviceVars

\* serviceRegistry.register(name, ...) by a starting service
Register(s) ==
    /\ s \notin registered
    /\ registered' = registered \cup {s}
    /\ services' = register(services, s, ServiceUrl(s))
    /\ UNCHANGED <<circuitBreakers, now, inflight, nreq, nadv, last, streak>>
    /\ UNCHANGED eventVars
    /\ UNCHANGED <<monitor, healthCall>>
    /\ UNCHANGED serviceVars

\* serviceRegistry.unregister('user-service') by the user service shutting down
Unregister(s) ==
    /\ s = "user-service"
    /\ s \in registered
    /\ registered' = registered \ {s}
    /\ services' = unregister(services, s)
    /\ UNCHANGED <<circuitBreakers, now, inflight, nreq, nadv, last, streak>>
    /\ UNCHANGED eventVars
    /\ UNCHANGED <<monitor, healthCall>>
    /\ UNCHANGED serviceVars

\* the outcomes that differ for the circuit breaker: a response axios resolves
\* with, a refused connection, the timeout
BreakerOutcomes(r, t) ==
    { o \in Outcomes(r, t) :
        \/ o.kind = "response" /\ o.status = 404 /\ o.body.json
        \/ o.kind = "error" /\ o.code \in {"ECONNREFUSED", "ECONNABORTED"} }

\* the gateway under traffic for its three services, seen from the breaker
Next ==
    \/ \E s \in ServiceNames : ProxyStart(s, MaxRequests)
    \/ \E r \in BagToSet(inflight) :
          \E o \in BreakerOutcomes(r, now) : ProxyComplete(r, o)
    \/ \E d \in {Timeout, Cooldown - Timeout} : Advance(d)
    \/ \E s \in ServiceNames : Register(s)
    \/ \E s \in ServiceNames : Unregister(s)

Spec == Init /\ [][Next]_vars

\* the gateway with every outcome of the downstream call
NextProxy ==
    \/ \E s \in ServiceNames : ProxyStart(s, MaxProxyRequests)
    \/ \E r \in BagToSet(inflight) :
          \E o \in Outcomes(r, now) : ProxyComplete(r, o)
    \/ \E d \in {Timeout, Cooldown - Timeout} : Advance(d)
    \/ \E s \in ServiceNames : Register(s)
    \/ \E s \in ServiceNames : Unregister(s)

SpecProxy == Init /\ [][NextProxy]_vars

\* an awaited axios call settles: with a response, with a socket error, or at
\* the latest when the timer of the config fires
AxiosSettles ==
    \E r \in BagToSet(inflight) : \E o \in Outcomes(r, now) : ProxyComplete(r, o)

\* the gateway when every awaited call settles
SpecProxyLive == SpecProxy /\ WF_vars(AxiosSettles)

(***************************************************************************)
(* The broker, as far as the publisher and the workers rely on it: a topic *)
(* exchange and one exclusive queue per consumer instance, bound with      *)
(* 'list.checkout.#'.  A routing key is the sequence of its words.         *)
(***************************************************************************)
\* 'list.checkout.#'
BINDING_KEY == <<"list", "checkout", "#">>

\* 'list.checkout.completed', the key of the checkout handler
CheckoutKey == <<"list", "checkout", "completed">>

\* topic matching: a word matches itself, '#' matches zero or more words
RECURSIVE TopicMatches(_, _)
TopicMatches(pattern, key) ==
    IF pattern = <<>> THEN key = <<>>
    ELSE IF Head(pattern) = "#"
      THEN \E n \in 0..Len(key) :
              TopicMatches(Tail(pattern), SubSeq(key, n + 1, Len(key)))
      ELSE /\ key # <<>>
           /\ Head(key) = Head(pattern)
           /\ TopicMatches(Tail(pattern), Tail(key))

\* the exchange writes the message to one queue only, the first bound one
Route_FirstQueueOnly(qs, key, body) ==
    [i \in DOMAIN qs |->
        IF TopicMatches(BINDING_KEY, key) /\ i = CHOOSE j \in DOMAIN qs : TRUE
          THEN Append(qs[i], [key |-> key, body |-> body])
          ELSE qs[i]]

\* the exchange routes a message: a copy to every queue whose binding matches
Route(qs, key, body) ==
    [i \in DOMAIN qs |->
        IF TopicMatches(BINDING_KEY, key)
          THEN Append(qs[i], [key |-> key, body |-> body])
          ELSE qs[i]]

(***************************************************************************)
(* shared/rabbitmq, the publisher module of the list service.  The k-th    *)
(* call of publish is k; the connection its amqp.connect opens is <<k>>,   *)
(* and so is the channel created on that connection.                       *)
(***************************************************************************)
\* JSON.stringify of a value read from the database: a document that parses
\* back to the value
JSONstringify(value) == [literal |-> "object", doc |-> value]

\* the channel is one of an open connection
Usable(ch) == ch # null /\ ch[1] \in conns.open

\* the catch block of publish: the error is logged, the promise resolves to false
Caught(error) == "false"

\* publish, from `if (!channel) throw` to its end, as the call record it
\* leaves: false when there is no channel or channel.publish throws (the
\* channel is closed), true when the message was handed to the channel
Send(call) ==
    [call EXCEPT !.pc = "done",
                 !.result = IF Usable(channel) THEN "true"
                           ELSE IF channel = null
                             THEN Caught("No RabbitMQ channel available")
                             ELSE Caught("Channel closed")]

\* what that part of publish does to the queues
SendRoutes(call) ==
    IF Usable(channel) THEN Route(queues, call.key, call.body) ELSE queues

\* publish(exchange, routingKey, message), up to its first await or, when
\* the module holds a channel, to its end
publish(routingKey, message) ==
    LET call == [pc |-> "connecting", result |-> "pending",
                 key |-> routingKey, body |-> JSONstringify(message)]
    IN  IF channel # null
          THEN /\ publishes' = Append(publishes, Send(call))
               /\ queues' = SendRoutes(call)
          ELSE /\ publishes' = Append(publishes, call)
               /\ queues' = queues

\* the catch block of connect followed by the catch block of publish
ConnectThrows(p) ==
    /\ connection' = null
    /\ channel' = null
    /\ publishes' = [publishes EXCEPT ![p].pc = "done",
                                      ![p].result = Caught("connect failed")]

\* connect: `connection = await amqp.connect(RABBIT_URL)` settles
ConnectSettles(p, ok) ==
    /\ p \in DOMAIN publishes
    /\ publishes[p].pc = "connecting"
    /\ IF ok
         THEN /\ connection' = <<p>>
              /\ conns' = [conns EXCEPT !.open = @ \cup {p}]
              /\ publishes' = [publishes EXCEPT ![p].pc = "creating"]
              /\ UNCHANGED channel
         ELSE /\ ConnectThrows(p)
              /\ UNCHANGED conns
    /\ UNCHANGED <<list, handlers, queues, workers, callback, nsent>>
    /\ UNCHANGED gatewayVars
    /\ UNCHANGED healthVars
    /\ UNCHANGED serviceVars

\* connect: `channel = await connection.createChannel()` settles; it cannot
\* succeed on a closed connection
CreateChannelSettles(p, ok) ==
    /\ p \in DOMAIN publishes
    /\ publishes[p].pc = "creating"
    /\ ok => p \in conns.open
    /\ IF ok
         THEN /\ channel' = <<p>>
              /\ publishes' = [publishes EXCEPT ![p].pc = "asserting"]
              /\ UNCHANGED connection
         ELSE ConnectThrows(p)
    /\ UNCHANGED <<list, handlers, conns, queues, workers, callback, nsent>>
    /\ UNCHANGED gatewayVars
    /\ UNCHANGED healthVars
    /\ UNCHANGED serviceVars

\* connect: `await channel.assertExchange(...)` settles; then the listeners
\* are put on the module's connection (a TypeError when it is null), connect
\* returns and publish goes on to its end
AssertExchangeSettles(p, ok) ==
    /\ p \in DOMAIN publishes
    /\ publishes[p].pc = "asserting"
    /\ ok => p \in conns.open
    /\ IF ok /\ connection # null
         THEN /\ conns' = [conns EXCEPT !.listened = @ \cup {connection[1]}]
              /\ publishes' = [publishes EXCEPT ![p] = Send(@)]
              /\ queues' = SendRoutes(publishes[p])
              /\ UNCHANGED <<connection, channel>>
         ELSE /\ ConnectThrows(p)
              /\ UNCHANGED <<conns, queues>>
    /\ UNCHANGED <<list, handlers, workers, callback, nsent>>
    /\ UNCHANGED gatewayVars
    /\ UNCHANGED healthVars
    /\ UNCHANGED serviceVars

\* the calls of publish that await createChannel or assertExchange on c
AwaitingOn(c) ==
    {p \in DOMAIN publishes : p = c /\ publishes[p].pc \in {"creating", "asserting"}}

\* a connection of the publisher closes: the broker goes away, or closes this
\* one connection.  What connect awaits on it is rejected, and the 'error'
\* and 'close' listeners, where connect has put them, run: either way the
\* module's connection and channel are set to null.  A connection that
\* carries no listener and no pending call closes unnoticed.
ConnectionClosed(c) ==
    /\ c \in conns.open
    /\ conns' = [open |-> conns.open \ {c}, listened |-> conns.listened \ {c}]
    /\ IF c \in conns.listened \/ AwaitingOn(c) # {}
         THEN connection' = null /\ channel' = null
         ELSE UNCHANGED <<connection, channel>>
    /\ publishes' = [p \in DOMAIN publishes |->
                       IF p \in AwaitingOn(c)
                         THEN [publishes[p] EXCEPT !.pc = "done",
                                                   !.result = Caught("closed")]
                         ELSE publishes[p]]
    /\ UNCHANGED <<list, handlers, queues, workers, callback, nsent>>
    /\ UNCHANGED gatewayVars
    /\ UNCHANGED healthVars
    /\ UNCHANGED serviceVars

(***************************************************************************)
(* The list service: the requests of the owner for one list.  A handler    *)
(* runs from one await to the next without interleaving.  Money is counted *)
(* in cents; the sums of calculateListSummary and of the analytics worker  *)
(* fold the same products in the same order, so that rounding cannot tell  *)
(* them apart.                                                             *)
(***************************************************************************)
\* the sum that both reduce calls compute, from the left
RECURSIVE SumOfProducts(_)
SumOfProducts(items) ==
    IF items = <<>> THEN 0
    ELSE SumOfProducts(SubSeq(items, 1, Len(items) - 1))
           + items[Len(items)].estimatedPrice * items[Len(items)].quantity

\* calculateListSummary(items)
calculateListSummary(items) ==
    [totalItems |-> Len(items),
     purchasedItems |-> Cardinality({i \in DOMAIN items : items[i].purchased}),
     estimatedTotal |-> SumOfProducts(items)]

\* the event the checkout handler builds from the record listDb.update returned
CheckoutEvent(updated) ==
    [id |-> "list", userId |-> "owner", items |-> updated.items,
     summary |-> updated.summary]

\* a handler that publishes before it answers
CheckoutSteps_PublishFirst == <<"persist", "publish", "respond">>

\* the order of the effects of the checkout handler after listDb.update
\* resolved
CheckoutSteps == <<"persist", "respond", "publish">>

\* req.list of a handler that does not read it, or reads it no more
NoList == [status |-> "", items |-> <<>>, summary |-> NoSummary]

\* a request for the list arrives with the owner's token: validateUserId and
\* checkListOwnership pass, req.list is the list as findById read it
Arrive(route, arg, limit) ==
    /\ Cardinality({h \in DOMAIN handlers :
                      (handlers[h].route = "checkout") <=> (route = "checkout")})
         < limit
    /\ handlers' = Append(handlers,
                     [route |-> route, arg |-> arg, pc |-> "owned",
                      reqList |-> IF route = "checkout" THEN NoList ELSE list,
                      status |-> 0, steps |-> <<>>, call |-> 0])
    /\ UNCHANGED <<list, connection, channel, conns, publishes, queues, workers, callback, nsent>>
    /\ UNCHANGED gatewayVars
    /\ UNCHANGED healthVars
    /\ UNCHANGED serviceVars

\* a handler that answers 500 when it holds no channel to publish on
Checkout_NeedsBroker(h, ok) ==
    /\ h \in DOMAIN handlers
    /\ handlers[h].route = "checkout" /\ handlers[h].pc = "owned"
    /\ IF ok
         THEN LET updated == [list EXCEPT !.status = "completed"]
              IN  /\ list' = updated
                  /\ handlers' = [handlers EXCEPT
                        ![h].pc = "done",
                        ![h].status = IF channel = null THEN 500 ELSE 202,
                        ![h].steps = CheckoutSteps,
                        ![h].call = Len(publishes) + 1]
                  /\ publish(CheckoutKey, CheckoutEvent(updated))
         ELSE /\ handlers' = [handlers EXCEPT ![h].pc = "done",
                                              ![h].status = 500,
                                              ![h].steps = <<"respond">>]
              /\ UNCHANGED <<list, publishes, queues>>
    /\ UNCHANGED <<connection, channel, conns, workers, callback, nsent>>
    /\ UNCHANGED gatewayVars
    /\ UNCHANGED healthVars
    /\ UNCHANGED serviceVars

\* a handler that publishes the event in a finally block, whether or not the
\* update was persisted
Checkout_PublishesAnyway(h, ok) ==
    /\ h \in DOMAIN handlers
    /\ handlers[h].route = "checkout" /\ handlers[h].pc = "owned"
    /\ IF ok
         THEN LET updated == [list EXCEPT !.status = "completed"]
              IN  /\ list' = updated
                  /\ handlers' = [handlers EXCEPT ![h].pc = "done",
                                                  ![h].status = 202,
                                                  ![h].steps = CheckoutSteps,
                                                  ![h].call = Len(publishes) + 1]
                  /\ publish(CheckoutKey, CheckoutEvent(updated))
         ELSE /\ handlers' = [handlers EXCEPT ![h].pc = "done",
                                              ![h].status = 500,
                                              ![h].steps = <<"respond", "publish">>,
                                              ![h].call = Len(publishes) + 1]
              /\ publish(CheckoutKey, CheckoutEvent(list))
              /\ UNCHANGED list
    /\ UNCHANGED <<connection, channel, conns, workers, callback, nsent>>
    /\ UNCHANGED gatewayVars
    /\ UNCHANGED healthVars
    /\ UNCHANGED serviceVars

\* POST /lists/:id/checkout: `await listDb.update(id, {status: 'completed'})`
\* settles and the handler runs to its end; `ok` is whether the update was
\* persisted
Checkout(h, ok) ==
    /\ h \in DOMAIN handlers
    /\ handlers[h].route = "checkout" /\ handlers[h].pc = "owned"
    /\ IF ok
         THEN LET updated == [list EXCEPT !.status = "completed"]
              IN  /\ list' = updated
                  /\ handlers' = [handlers EXCEPT ![h].pc = "done",
                                                  ![h].status = 202,
                                                  ![h].steps = CheckoutSteps,
                                                  ![h].call = Len(publishes) + 1]
                  /\ publish(CheckoutKey, CheckoutEvent(updated))
         ELSE /\ handlers' = [handlers EXCEPT ![h].pc = "done",
                                              ![h].status = 500,
                                              ![h].steps = <<"respond">>]
              /\ UNCHANGED <<list, publishes, queues>>
    /\ UNCHANGED <<connection, channel, conns, workers, callback, nsent>>
    /\ UNCHANGED gatewayVars
    /\ UNCHANGED healthVars
    /\ UNCHANGED serviceVars

\* averagePrice of the catalogue items, in cents
Catalog == {450, 620}

\* quantity of a request body
Quantities == {1, 2}

\* the bodies of PUT /lists/:id/items/:itemId the model sends
ItemUpdates ==
    { [field |-> "purchased", purchased |-> TRUE, quantity |-> 0] }
    \cup { [field |-> "quantity", purchased |-> FALSE, quantity |-> q] :
             q \in Quantities }

\* the index in items of the item with this id, 0 when there is none
\* (findIndex answering -1)
findIndex(items, id) ==
    IF \E i \in DOMAIN items : items[i].id = id
      THEN CHOOSE i \in DOMAIN items : items[i].id = id
      ELSE 0

\* items.filter(item => item.id !== itemId)
RECURSIVE filterOut(_, _)
filterOut(items, id) ==
    IF items = <<>> THEN <<>>
    ELSE IF Head(items).id = id THEN filterOut(Tail(items), id)
         ELSE <<Head(items)>> \o filterOut(Tail(items), id)

\* req.list.items after the assignments of the PUT handler
updatedItems(items, i, body) ==
    [items EXCEPT ![i] = IF body.field = "quantity"
                           THEN [@ EXCEPT !.quantity = body.quantity]
                           ELSE [@ EXCEPT !.purchased = body.purchased]]

\* POST /lists/:id/items, from checkListOwnership to `await getItemInfo`
ArriveAddItem(price, quantity, limit) ==
    Arrive("addItem", [price |-> price, quantity |-> quantity], limit)

\* POST /lists/:id/items: getItemInfo resolved; the new item is pushed onto
\* req.list.items and listDb.update(id, {items}) is called.  An item the
\* catalogue does not hold is answered 404.
AddItem(h, found) ==
    /\ h \in DOMAIN handlers
    /\ handlers[h].route = "addItem" /\ handlers[h].pc = "owned"
    /\ handlers' =
         IF found
           THEN [handlers EXCEPT
                   ![h].pc = "writing",
                   ![h].reqList.items =
                       Append(@, [id |-> h,
                                  estimatedPrice |-> handlers[h].arg.price,
                                  quantity |-> handlers[h].arg.quantity,
                                  purchased |-> FALSE])]
           ELSE [handlers EXCEPT ![h].pc = "done", ![h].status = 404,
                                 ![h].reqList = NoList]
    /\ UNCHANGED <<list, connection, channel, conns, publishes, queues, workers, callback, nsent>>
    /\ UNCHANGED gatewayVars
    /\ UNCHANGED healthVars
    /\ UNCHANGED serviceVars

\* PUT /lists/:id/items/:itemId, from checkListOwnership to
\* `await listDb.update(id, {items})`
UpdateItem(id, body, limit) ==
    /\ Cardinality({h \in DOMAIN handlers : handlers[h].route # "checkout"}) < limit
    /\ LET i == findIndex(list.items, id)
       IN  handlers' = Append(handlers,
             IF i = 0
               THEN [route |-> "updateItem", arg |-> id, pc |-> "done",
                     reqList |-> NoList, status |-> 404, steps |-> <<>>,
                     call |-> 0]
               ELSE [route |-> "updateItem", arg |-> id, pc |-> "writing",
                     reqList |-> [list EXCEPT
                                    !.items = updatedItems(list.items, i, body)],
                     status |-> 0, steps |-> <<>>, call |-> 0])
    /\ UNCHANGED <<list, connection, channel, conns, publishes, queues, workers, callback, nsent>>
    /\ UNCHANGED gatewayVars
    /\ UNCHANGED healthVars
    /\ UNCHANGED serviceVars

\* DELETE /lists/:id/items/:itemId, from checkListOwnership to
\* `await listDb.update(id, {items: filteredItems})`
RemoveItem(id, limit) ==
    /\ Cardinality({h \in DOMAIN handlers : handlers[h].route # "checkout"}) < limit
    /\ LET filteredItems == filterOut(list.items, id)
       IN  handlers' = Append(handlers,
             IF Len(filteredItems) = Len(list.items)
               THEN [route |-> "removeItem", arg |-> id, pc |-> "done",
                     reqList |-> NoList, status |-> 404, steps |-> <<>>,
                     call |-> 0]
               ELSE [route |-> "removeItem", arg |-> id, pc |-> "writing",
                     reqList |-> [list EXCEPT !.items = filteredItems],
                     status |-> 0, steps |-> <<>>, call |-> 0])
    /\ UNCHANGED <<list, connection, channel, conns, publishes, queues, workers, callback, nsent>>
    /\ UNCHANGED gatewayVars
    /\ UNCHANGED healthVars
    /\ UNCHANGED serviceVars

\* the three item handlers: `await listDb.update(id, {items})` resolves, the
\* items are stored, updateListSummary is called and awaits findById
ItemsWritten(h) ==
    /\ h \in DOMAIN handlers
    /\ handlers[h].pc = "writing"
    /\ list' = [list EXCEPT !.items = handlers[h].reqList.items]
    /\ handlers' = [handlers EXCEPT ![h].pc = "finding"]
    /\ UNCHANGED <<connection, channel, conns, publishes, queues, workers, callback, nsent>>
    /\ UNCHANGED gatewayVars
    /\ UNCHANGED healthVars
    /\ UNCHANGED serviceVars

\* updateListSummary: findById resolved, the summary of the stored items is
\* computed and listDb.update(listId, {summary}) is called
SummaryComputed(h) ==
    /\ h \in DOMAIN handlers
    /\ handlers[h].pc = "finding"
    /\ handlers' = [handlers EXCEPT
                      ![h].pc = "summarising",
                      ![h].reqList.summary = calculateListSummary(list.items)]
    /\ UNCHANGED <<list, connection, channel, conns, publishes, queues, workers, callback, nsent>>
    /\ UNCHANGED gatewayVars
    /\ UNCHANGED healthVars
    /\ UNCHANGED serviceVars

\* updateListSummary: listDb.update resolved, the summary is stored; the
\* handler answers 201 (POST) or 200 (PUT, DELETE)
SummaryWritten(h) ==
    /\ h \in DOMAIN handlers
    /\ handlers[h].pc = "summarising"
    /\ list' = [list EXCEPT !.summary = handlers[h].reqList.summary]
    /\ handlers' = [handlers EXCEPT
                      ![h].pc = "done", ![h].reqList = NoList,
                      ![h].status = IF handlers[h].route = "addItem" THEN 201
                                                                     ELSE 200]
    /\ UNCHANGED <<connection, channel, conns, publishes, queues, workers, callback, nsent>>
    /\ UNCHANGED gatewayVars
    /\ UNCHANGED healthVars
    /\ UNCHANGED serviceVars

\* the checkout requests the model lets arrive
MaxCheckouts == 2

\* the item requests the model lets arrive
MaxItemRequests == 2

\* the checkout requests the model lets arrive among the item requests
MaxItemCheckouts == 1

\* the list service under checkout requests, with its publisher
NextCheckout ==
    \/ Arrive("checkout", 0, MaxCheckouts)
    \/ \E h \in DOMAIN handlers : \E ok \in BOOLEAN : Checkout(h, ok)
    \/ \E p \in DOMAIN publishes : \E ok \in BOOLEAN : ConnectSettles(p, ok)
    \/ \E p \in DOMAIN publishes : \E ok \in BOOLEAN : CreateChannelSettles(p, ok)
    \/ \E p \in DOMAIN publishes : \E ok \in BOOLEAN : AssertExchangeSettles(p, ok)
    \/ \E c \in conns.open : ConnectionClosed(c)

SpecCheckout == Init /\ [][NextCheckout]_vars

\* the list service under item requests and checkout requests for one list
NextItems ==
    \/ Arrive("checkout", 0, MaxItemCheckouts)
    \/ \E h \in DOMAIN handlers : Checkout(h, TRUE)
    \/ \E price \in Catalog : \E quantity \in Quantities :
          ArriveAddItem(price, quantity, MaxItemRequests)
    \/ \E h \in DOMAIN handlers : \E found \in BOOLEAN : AddItem(h, found)
    \/ \E id \in 1..MaxItemRequests : \E body \in ItemUpdates :
          UpdateItem(id, body, MaxItemRequests)
    \/ \E id \in 1..MaxItemRequests : RemoveItem(id, MaxItemRequests)
    \/ \E h \in DOMAIN handlers : ItemsWritten(h)
    \/ \E h \in DOMAIN handlers : SummaryComputed(h)
    \/ \E h \in DOMAIN handlers : SummaryWritten(h)
    \/ \E p \in DOMAIN publishes : ConnectSettles(p, TRUE)
    \/ \E p \in DOMAIN publishes : CreateChannelSettles(p, TRUE)
    \/ \E p \in DOMAIN publishes : AssertExchangeSettles(p, TRUE)

SpecItems == Init /\ [][NextItems]_vars

(***************************************************************************)
(* The workers.  Every instance consumes from its own exclusive queue; the *)
(* broker hands it the messages of that queue in order.  The callback of   *)
(* the analytics worker has no await and runs in one step; the callback of *)
(* the notification worker awaits the lookup of the user.                  *)
(***************************************************************************)
\* the consumer instances that can be started
Instances == {"analytics-1", "analytics-2", "notification-1"}

\* the worker script an instance runs
RoleOf(i) == IF i = "notification-1" THEN "notification" ELSE "analytics"

\* the list of the example: 2 x 4.50 and 1 x 6.20
ExampleItems ==
    << [id |-> 1, estimatedPrice |-> 450, quantity |-> 2, purchased |-> FALSE],
       [id |-> 2, estimatedPrice |-> 620, quantity |-> 1, purchased |-> FALSE] >>

\* the events of the checkout handler the workers are given: the example
\* with its summary, the example checked out while the summary still was
\* the one of its first item, and a one-item list checked out while the
\* summary still was the one of the empty list
CheckoutEvents ==
    { CheckoutEvent([status |-> "completed", items |-> ExampleItems,
                     summary |-> calculateListSummary(ExampleItems)]),
      CheckoutEvent([status |-> "completed", items |-> ExampleItems,
                     summary |-> calculateListSummary(SubSeq(ExampleItems, 1, 1))]),
      CheckoutEvent([status |-> "completed", items |-> SubSeq(ExampleItems, 1, 1),
                     summary |-> NoSummary]) }

\* the messages handed to the exchange: checkout events, a body that is not
\* JSON, the JSON document null, and an event of the item service
Messages ==
    { [key |-> CheckoutKey, body |-> JSONstringify(e)] : e \in CheckoutEvents }
    \cup { [key |-> CheckoutKey,
            body |-> [literal |-> l, doc |-> NoMessage.body.doc]] :
             l \in {"garbage", "null"} }
    \cup { [key |-> <<"item", "created">>,
            body |-> JSONstringify(NoMessage.body.doc)] }

\* JSON.parse(msg.content.toString()): a SyntaxError for a body that is not
\* JSON, else the value of the document
JSONparse(body) ==
    [threw |-> body.literal = "garbage",
     isNull |-> body.literal = "null",
     value |-> body.doc]

\* calcTotalFromItems(items)
calcTotalFromItems(items) == SumOfProducts(items)

\* total.toFixed(2) of an amount of cents: whole units and hundredths
toFixed(cents) == <<cents \div 100, cents % 100>>

\* ch.ack(msg)
Ack == [op |-> "ack", requeue |-> FALSE]

\* a rejection that asks the broker to requeue
Nack_Requeues == [op |-> "nack", requeue |-> TRUE]

\* ch.nack(msg, false, false)
Nack == [op |-> "nack", requeue |-> FALSE]

\* a callback that acknowledges first and rejects when the work then throws
Settlement_AckFirst(threw) == IF threw THEN <<Ack, Nack>> ELSE <<Ack>>

\* the channel calls of a callback: ack as the last statement of the try
\* block, nack in the catch block
Settlement(threw) == IF threw THEN <<Nack>> ELSE <<Ack>>

\* the total the analytics callback logs for a parsed payload
AnalyticsTotal(payload) ==
    IF payload.summary.estimatedTotal # 0
      THEN payload.summary.estimatedTotal
      ELSE calcTotalFromItems(payload.items)

\* the callback of the analytics worker on msg, as the run it leaves
AnalyticsCallback(i, msg) ==
    LET parsed == JSONparse(msg.body)
        threw == parsed.threw \/ parsed.isNull
    IN  [instance |-> i, role |-> "analytics", msg |-> msg, threw |-> threw,
         awaiting |-> FALSE, calls |-> Settlement(threw),
         reported |-> IF threw THEN <<0, 0>>
                               ELSE toFixed(AnalyticsTotal(parsed.value)),
         email |-> "", lookup |-> "none"]

\* the callback of the notification worker on msg up to its end or to
\* `await axios.get`: `found` is whether discover('user-service') returned
NotificationCallback(i, msg, found) ==
    LET parsed == JSONparse(msg.body)
        threw == parsed.threw \/ parsed.isNull
    IN  [instance |-> i, role |-> "notification", msg |-> msg, threw |-> threw,
         awaiting |-> ~threw /\ found,
         calls |-> IF ~threw /\ found THEN <<>> ELSE Settlement(threw),
         reported |-> <<0, 0>>,
         email |-> IF threw \/ found THEN "" ELSE "userId",
         lookup |-> IF threw THEN "none"
                    ELSE IF found THEN "pending" ELSE "unresolved"]

\* the users the user service holds, and the email address it stores for one
StoredUsers == {"owner"}

StoredEmail(id) == "owner@example.com"

\* the Authorization header of the worker's axios.get: the call passes no headers
WorkerAuthorization == ""

\* authMiddleware of the user service: 401 without a bearer token that
\* verifies, else 0 (next) and the user of the token
authMiddleware(authHeader) ==
    IF authHeader = "" THEN [status |-> 401, user |-> ""]
    ELSE IF authHeader \notin StoredUsers THEN [status |-> 401, user |-> ""]
    ELSE [status |-> 0, user |-> authHeader]

\* getUser: 404 for an unknown id, 403 for the id of another user, else the
\* user without the password, wrapped in { success, data }
getUser(user, id) ==
    IF id \notin StoredUsers
      THEN [status |-> 404, body |-> [success |-> FALSE]]
    ELSE IF user # id
      THEN [status |-> 403, body |-> [success |-> FALSE]]
    ELSE [status |-> 200,
          body |-> [success |-> TRUE,
                    data |-> [id |-> id, email |-> StoredEmail(id)]]]

\* GET /users/:id of the user service: authMiddleware, then getUser
GetUsersId(authHeader, id) ==
    LET auth == authMiddleware(authHeader)
    IN  IF auth.status # 0 THEN [status |-> 401, body |-> [success |-> FALSE]]
                           ELSE getUser(auth.user, id)

\* a callback whose inner catch block rethrows: a failed lookup reaches the
\* outer catch block and the message is rejected
LookupCallback_RejectsOnFailure(i, msg, ok) ==
    LET userId == JSONparse(msg.body).value.userId
        resp == GetUsersId(WorkerAuthorization, userId)
        resolved == ok /\ resp.status \in 200..299
    IN  [instance |-> i, role |-> "notification", msg |-> msg, threw |-> ~resolved,
         awaiting |-> FALSE, calls |-> Settlement(~resolved), reported |-> <<0, 0>>,
         email |-> IF resolved /\ "email" \in DOMAIN resp.body
                     THEN resp.body.email
                     ELSE "userId",
         lookup |-> IF ok THEN "answered" ELSE "failed"]

\* the callback of the notification worker after axios.get settled: `ok` is
\* whether the user service was reached and answered.  axios resolves for a
\* 2xx status; the email is resp.data.email || payload.userId, and
\* payload.userId in the catch block
LookupCallback(i, msg, ok) ==
    LET userId == JSONparse(msg.body).value.userId
        resp == GetUsersId(WorkerAuthorization, userId)
        resolved == ok /\ resp.status \in 200..299
    IN  [instance |-> i, role |-> "notification", msg |-> msg, threw |-> FALSE,
         awaiting |-> FALSE, calls |-> Settlement(FALSE), reported |-> <<0, 0>>,
         email |-> IF resolved /\ "email" \in DOMAIN resp.body
                     THEN resp.body.email
                     ELSE "userId",
         lookup |-> IF ok THEN "answered" ELSE "failed"]

\* the queue after the broker handled the channel calls for msg: a message
\* rejected with requeue goes back to the front
Settled(q, msg, calls) ==
    IF \E k \in DOMAIN calls : calls[k].op = "nack" /\ calls[k].requeue
      THEN <<msg>> \o q
      ELSE q

\* the messages the model hands to the exchange
MaxMessages == 2

\* start(): the instance connects, declares its exclusive queue and binds it
WorkerStart(i) ==
    /\ i \notin DOMAIN queues
    /\ queues' = queues @@ (i :> <<>>)
    /\ workers' = workers @@ (i :> [role |-> RoleOf(i), pending |-> <<>>])
    /\ UNCHANGED <<list, handlers, connection, channel, conns, publishes,
                   callback, nsent>>
    /\ UNCHANGED gatewayVars
    /\ UNCHANGED healthVars
    /\ UNCHANGED serviceVars

\* a publisher hands a message to the exchange (channel.publish)
channelPublish(msg) ==
    /\ nsent < MaxMessages
    /\ nsent' = nsent + 1
    /\ queues' = Route(queues, msg.key, msg.body)
    /\ UNCHANGED <<list, handlers, connection, channel, conns, publishes,
                   workers, callback>>
    /\ UNCHANGED gatewayVars
    /\ UNCHANGED healthVars
    /\ UNCHANGED serviceVars

\* the broker delivers the first message of i's queue and the callback runs
Deliver(i, found) ==
    /\ i \in DOMAIN queues
    /\ queues[i] # <<>>
    /\ LET msg == Head(queues[i])
           run == IF workers[i].role = "analytics"
                    THEN AnalyticsCallback(i, msg)
                    ELSE NotificationCallback(i, msg, found)
       IN  /\ callback' = run
           /\ queues' = [queues EXCEPT
                           ![i] = Settled(Tail(queues[i]), msg, run.calls)]
           /\ workers' = IF run.awaiting
                           THEN [workers EXCEPT ![i].pending = Append(@, msg)]
                           ELSE workers
    /\ UNCHANGED <<list, handlers, connection, channel, conns, publishes, nsent>>
    /\ UNCHANGED gatewayVars
    /\ UNCHANGED healthVars
    /\ UNCHANGED serviceVars

\* axios.get of the k-th pending callback of i settles and the callback ends
LookupSettles(i, k, ok) ==
    /\ i \in DOMAIN workers
    /\ k \in DOMAIN workers[i].pending
    /\ LET msg == workers[i].pending[k]
           run == LookupCallback(i, msg, ok)
       IN  /\ callback' = run
           /\ queues' = [queues EXCEPT ![i] = Settled(queues[i], msg, run.calls)]
           /\ workers' = [workers EXCEPT
                            ![i].pending = SubSeq(@, 1, k - 1)
                                             \o SubSeq(@, k + 1, Len(@))]
    /\ UNCHANGED <<list, handlers, connection, channel, conns, publishes, nsent>>
    /\ UNCHANGED gatewayVars
    /\ UNCHANGED healthVars
    /\ UNCHANGED serviceVars

\* the process of instance i ends; the broker deletes its exclusive queue
Crash(i) ==
    /\ i \in DOMAIN queues
    /\ queues' = [j \in (DOMAIN queues) \ {i} |-> queues[j]]
    /\ workers' = [j \in (DOMAIN workers) \ {i} |-> workers[j]]
    /\ UNCHANGED <<list, handlers, connection, channel, conns, publishes,
                   callback, nsent>>
    /\ UNCHANGED gatewayVars
    /\ UNCHANGED healthVars
    /\ UNCHANGED serviceVars

\* the broker and the workers
NextWorkers ==
    \/ \E i \in Instances : WorkerStart(i)
    \/ \E msg \in Messages : channelPublish(msg)
    \/ \E i \in Instances : \E found \in BOOLEAN : Deliver(i, found)
    \/ \E i \in Instances : \E k \in 1..MaxMessages : \E ok \in BOOLEAN :
          LookupSettles(i, k, ok)
    \/ \E i \in Instances : Crash(i)

SpecWorkers == Init /\ [][NextWorkers]_vars

(***************************************************************************)
(* Vocabulary of the properties: which step of proxyRequest a transition   *)
(* is, and which breaker call it made.                                     *)
(***************************************************************************)
\* the transition is the first part of a proxyRequest for s
StartOf(s) == nreq' = nreq + 1 /\ last'.service = s

\* the transition is the second part of a proxyRequest for s
CompleteOf(s) == nreq' = nreq /\ inflight' # inflight /\ last'.service = s

\* the transition recorded a failure for s
RecordedFailure(s) ==
    /\ CompleteOf(s)
    /\ \E i \in DOMAIN last'.breakerCalls :
          last'.breakerCalls[i] = [op |-> "recordFailure", service |-> s]

\* the transition recorded a success for s
RecordedSuccess(s) ==
    /\ CompleteOf(s)
    /\ \E i \in DOMAIN last'.breakerCalls :
          last'.breakerCalls[i] = [op |-> "resetCircuitBreaker", service |-> s]

\* the three fields of s's breaker, as a query of the Map sees them
BreakerFields(cb, s) ==
    <<Failures(cb, s), BreakerOpen(cb, s), LastFailure(cb, s)>>

\* some request for s is awaiting its axios call
Awaiting(s) == \E r \in BagToSet(inflight) : r.service = s

(***************************************************************************)
(* C1.  As claimed: once the circuit of S is open (three failures with no  *)
(* success between them), isCircuitOpen(S) returns true at every moment    *)
(* less than 300,000 ms after S's last recorded failure, whatever the      *)
(* requests that were in flight when it opened do afterwards.              *)
(***************************************************************************)
C1_OpenThroughCooldown ==
    [][\A s \in ServiceNames :
          (BreakerOpen(circuitBreakers, s)
             /\ now' - LastFailure(circuitBreakers', s) < Cooldown)
          => isCircuitOpen(circuitBreakers', s, now').result]_vars

(***************************************************************************)
(* C1 amended.  The third failure recorded for S with no success or        *)
(* auto-recovery between them opens S's circuit; from then on it stays     *)
(* open, and every isCircuitOpen(S) query returns true, for as long as     *)
(* less than 300,000 ms have passed since S's last recorded failure and no *)
(* success has been recorded for S.                                        *)
(***************************************************************************)
C1_OpenUntilCooldownOrSuccess ==
    [][\A s \in ServiceNames :
          /\ streak'[s] >= Threshold => BreakerOpen(circuitBreakers', s)
          /\ (BreakerOpen(circuitBreakers, s) /\ ~RecordedSuccess(s)
                /\ now' - LastFailure(circuitBreakers', s) < Cooldown)
             => BreakerOpen(circuitBreakers', s)
          /\ (StartOf(s) /\ BreakerOpen(circuitBreakers, s)
                /\ now - LastFailure(circuitBreakers, s) < Cooldown)
             => last'.circuitOpen]_vars

\* a query of an open circuit answered true one timeout short of the cooldown
C1_Witness ==
    /\ last.kind = "start" /\ last.circuitOpen
    /\ streak[last.service] = Threshold
    /\ now - LastFailure(circuitBreakers, last.service) = Cooldown - Timeout

(***************************************************************************)
(* C2.  For a service S whose circuit is open, the isCircuitOpen(S) query  *)
(* made at least 300,000 ms after S's last recorded failure returns false, *)
(* sets the failure count to 0 and clears the open flag; it does so in the *)
(* query itself, before and whether or not any request is sent downstream. *)
(***************************************************************************)
C2_AutoRecovery ==
    [][\A s \in ServiceNames :
          (StartOf(s) /\ BreakerOpen(circuitBreakers, s)
             /\ now - LastFailure(circuitBreakers, s) >= Cooldown)
          => /\ ~last'.circuitOpen
             /\ Failures(circuitBreakers', s) = 0
             /\ ~BreakerOpen(circuitBreakers', s)
             /\ last'.breakerCalls = <<>>]_vars

\* a circuit that recovered in a query after which nothing was sent downstream
C2_Witness ==
    /\ last.kind = "start" /\ last.wasOpen /\ last.recovered
    /\ last.downstreamCalls = 0
    /\ now - LastFailure(circuitBreakers, last.service) = Cooldown
    /\ BreakerFields(circuitBreakers, last.service)[1] = 0

(***************************************************************************)
(* C3.  A single success recorded for S, in any breaker state, leaves S    *)
(* with failure count 0 and open flag false, so that an isCircuitOpen(S)   *)
(* query made next returns false.                                          *)
(***************************************************************************)
C3_SuccessResets ==
    [][\A s \in ServiceNames :
          RecordedSuccess(s)
          => /\ Failures(circuitBreakers', s) = 0
             /\ ~BreakerOpen(circuitBreakers', s)
             /\ ~isCircuitOpen(circuitBreakers', s, now').result]_vars

\* a success recorded while the circuit was open
C3_Witness ==
    /\ last.kind = "complete" /\ last.wasOpen
    /\ last.breakerCalls =
         << [op |-> "resetCircuitBreaker", service |-> last.service] >>
    /\ ~BreakerOpen(circuitBreakers, last.service)

(***************************************************************************)
(* C4.  For distinct services A and B, no step of a request for A (its     *)
(* isCircuitOpen query, its recordFailure, its resetCircuitBreaker)        *)
(* changes B's failure count, open flag or last-failure time, nor what     *)
(* isCircuitOpen(B) returns.                                               *)
(***************************************************************************)
C4_BreakersIndependent ==
    [][\A a \in ServiceNames : \A b \in ServiceNames \ {a} :
          (StartOf(a) \/ CompleteOf(a))
          => /\ BreakerFields(circuitBreakers', b) = BreakerFields(circuitBreakers, b)
             /\ isCircuitOpen(circuitBreakers', b, now').result
                  = isCircuitOpen(circuitBreakers, b, now).result]_vars

\* the circuit of one service opens while another service has a failure counted
C4_Witness ==
    /\ last.kind = "complete" /\ ~last.wasOpen
    /\ BreakerOpen(circuitBreakers, last.service)
    /\ \E b \in ServiceNames \ {last.service} :
          Failures(circuitBreakers, b) = 1 /\ ~BreakerOpen(circuitBreakers, b)

(***************************************************************************)
(* C5.  As claimed: every failure recorded for S raises its count by one,  *)
(* and a request for S that arrives when the count is at least 3 is        *)
(* rejected by the open circuit.                                           *)
(***************************************************************************)
C5_CountedAndRejected ==
    [][\A s \in ServiceNames :
          /\ RecordedFailure(s)
             => Failures(circuitBreakers', s) = Failures(circuitBreakers, s) + 1
          /\ (StartOf(s) /\ Failures(circuitBreakers, s) >= Threshold)
             => last'.circuitOpen /\ last'.response = CircuitOpenResponse]_vars

(***************************************************************************)
(* C5 amended.  Every failure recorded for S, also by requests that        *)
(* overlap, raises its count by exactly one, so the count is the number of *)
(* failures recorded since S's last success or auto-recovery; no           *)
(* auto-recovery happens while a request for S is in flight; and a request *)
(* for S that arrives when the count is at least 3, less than 300,000 ms   *)
(* after S's last recorded failure, is rejected by the open circuit        *)
(* without a downstream call.                                              *)
(***************************************************************************)
C5_CountedAndRejectedInCooldown ==
    [][\A s \in ServiceNames :
          /\ RecordedFailure(s)
             => Failures(circuitBreakers', s) = Failures(circuitBreakers, s) + 1
          /\ Failures(circuitBreakers', s) = streak'[s]
          /\ (StartOf(s) /\ last'.recovered) => ~Awaiting(s)
          /\ (StartOf(s) /\ Failures(circuitBreakers, s) >= Threshold
                /\ now - LastFailure(circuitBreakers, s) < Cooldown)
             => /\ last'.circuitOpen
                /\ last'.response = CircuitOpenResponse
                /\ last'.downstreamCalls = 0]_vars

\* the third of the failures of overlapping requests is counted as the third,
\* while another request for the service is still in flight
C5_Witness ==
    /\ last.kind = "complete" /\ ~last.wasOpen
    /\ last.breakerCalls = << [op |-> "recordFailure", service |-> last.service] >>
    /\ Failures(circuitBreakers, last.service) = Threshold
    /\ BreakerOpen(circuitBreakers, last.service)
    /\ \E r \in BagToSet(inflight) : r.service = last.service

(***************************************************************************)
(* C6.  If isCircuitOpen(S) returns true when proxyRequest(S) starts, the  *)
(* request is answered 503 with the circuit-open message, the registry is  *)
(* not consulted and no downstream call is made.                           *)
(***************************************************************************)
C6_OpenCircuitRejects ==
    (last.kind = "start" /\ last.circuitOpen)
    => /\ last.responded
       /\ last.response.status = 503
       /\ last.response.message = MsgCircuitOpen
       /\ last.discoverCalls = 0
       /\ last.downstreamCalls = 0

\* a request turned away by an open circuit
C6_Witness ==
    /\ last.kind = "start" /\ last.circuitOpen /\ last.wasOpen
    /\ last.response.status = 503
    /\ BreakerOpen(circuitBreakers, last.service)

(***************************************************************************)
(* C7.  If the circuit for S is not open and the registry cannot resolve   *)
(* S, proxyRequest answers 503 with the service-not-found message, which   *)
(* differs from the circuit-open message, and makes no downstream call.    *)
(***************************************************************************)
C7_NotFoundIs503 ==
    (last.kind = "start" /\ ~last.circuitOpen /\ ~last.resolved)
    => /\ last.responded
       /\ last.response.status = 503
       /\ last.response.message = MsgNotFound
       /\ last.response # CircuitOpenResponse
       /\ last.response.message # MsgCircuitOpen
       /\ last.downstreamCalls = 0

\* a request for a service the registry does not hold
C7_Witness ==
    /\ last.kind = "start" /\ ~last.circuitOpen /\ ~last.resolved
    /\ last.discoverCalls = 1
    /\ last.service \notin registered
    /\ last.response.status = 503

\* the axios call ended with an HTTP response
Responded(o) == o.kind = "response"

\* the axios call ended with a response that validateStatus accepts
Succeeded(o) == o.kind = "response" /\ o.status < ServerErrorFloor

(***************************************************************************)
(* C8.  Whenever the downstream service returns an HTTP response, whatever *)
(* its status, the gateway's response carries the same status and the same *)
(* body.                                                                   *)
(***************************************************************************)
C8_ResponsePassedThrough ==
    (last.kind = "complete" /\ Responded(last.outcome))
    => /\ last.response.status = last.outcome.status
       /\ last.response.body = last.outcome.body

(***************************************************************************)
(* C9.  When the downstream call ends without any HTTP response, because   *)
(* the connection was refused or because the 10 s timeout elapsed, the     *)
(* gateway answers 503 and records exactly one failure for that service.   *)
(***************************************************************************)
C9_ConnectivityIs503 ==
    (last.kind = "complete" /\ ~Responded(last.outcome)
       /\ last.outcome.code \in {"ECONNREFUSED", "ECONNABORTED"})
    => /\ last.response.status = 503
       /\ last.breakerCalls =
            << [op |-> "recordFailure", service |-> last.service] >>

(***************************************************************************)
(* C10.  For every request for which a downstream call was attempted,      *)
(* exactly one of resetCircuitBreaker(S) and recordFailure(S) is invoked,  *)
(* for the target service S, once the outcome of the call is known and not *)
(* before: resetCircuitBreaker when axios resolved (a response with a      *)
(* status under 500), recordFailure otherwise.                             *)
(***************************************************************************)
C10_OneBreakerCallPerOutcome ==
    /\ last.kind = "start" => last.breakerCalls = <<>>
    /\ last.kind = "complete"
       => /\ Len(last.breakerCalls) = 1
          /\ last.breakerCalls[1].service = last.service
          /\ last.breakerCalls[1].op =
                IF Succeeded(last.outcome) THEN "resetCircuitBreaker"
                                           ELSE "recordFailure"

\* a 500 answer passed through to the caller and recorded as a failure
C10_Witness ==
    /\ last.kind = "complete" /\ Responded(last.outcome)
    /\ last.outcome.status = 500 /\ last.response.status = 500
    /\ last.breakerCalls = << [op |-> "recordFailure", service |-> last.service] >>
    /\ Failures(circuitBreakers, last.service) = 1

(***************************************************************************)
(* C11.  For every inbound request handled by proxyRequest at most one     *)
(* downstream HTTP call is attempted, and a failed call is never retried   *)
(* within the same request: the first part of proxyRequest starts no call  *)
(* or one, which then is the one call added to the pending ones; the       *)
(* second part, whatever the outcome of the call, starts none, and the     *)
(* settled call is the one call that leaves the pending ones.              *)
(***************************************************************************)
C11_AtMostOneDownstreamCall ==
    [][ \A s \in ServiceNames :
          /\ StartOf(s)
             => /\ last'.downstreamCalls \in {0, 1}
                /\ BagCardinality(inflight')
                     = BagCardinality(inflight) + last'.downstreamCalls
          /\ CompleteOf(s)
             => /\ last'.downstreamCalls = 0
                /\ BagCardinality(inflight') = BagCardinality(inflight) - 1 ]_vars

\* a call that failed with a refused connection was answered and not repeated
C11_Witness ==
    /\ last.kind = "complete" /\ last.outcome.code = "ECONNREFUSED"
    /\ last.downstreamCalls = 0
    /\ last.responded
    /\ ~Awaiting(last.service)

(***************************************************************************)
(* C12.  Every request handled by proxyRequest eventually receives exactly *)
(* one response, on every path.  A request that makes no downstream call   *)
(* (circuit open, service not found) is answered in the first part of      *)
(* proxyRequest; a request that makes the call is not answered before the  *)
(* call settles, and is answered when it settles, whatever the outcome     *)
(* (response, connectivity failure, timeout, other error); and every       *)
(* request that awaits its call is eventually answered.                    *)
(***************************************************************************)
C12_AlwaysOneResponse ==
    /\ [][ \A s \in ServiceNames :
             /\ StartOf(s) => (last'.responded <=> last'.downstreamCalls = 0)
             /\ StartOf(s) /\ last'.responded => last'.response # NoResponse
             /\ CompleteOf(s) => last'.responded /\ last'.response # NoResponse ]_vars
    /\ \A s \in ServiceNames :
          Awaiting(s) ~> (last.kind = "complete" /\ last.service = s
                            /\ last.responded)

\* a request whose call ran into the timeout was answered
C12_Witness ==
    /\ last.kind = "complete" /\ last.outcome.code = "ECONNABORTED"
    /\ last.responded /\ last.response.status = 500

\* the steps that handler h logged, as a set
StepsOf(h) == {handlers[h].steps[i] : i \in DOMAIN handlers[h].steps}

\* the transition is the part of checkout handler h after listDb.update
\* resolved, the update persisted
CheckoutPersisted(h) ==
    /\ h \in DOMAIN handlers
    /\ handlers[h].route = "checkout" /\ handlers[h].pc = "owned"
    /\ handlers'[h].pc = "done"
    /\ list' = [list EXCEPT !.status = "completed"]
    /\ Len(publishes') = Len(publishes) + 1

(***************************************************************************)
(* C13.  For an authenticated owner whose list exists and whose status     *)
(* update is persisted, POST /lists/:id/checkout responds 202 whether or   *)
(* not the broker is reachable: the 202 is written in the step in which    *)
(* the update resolves, while the call of publish is still pending or has  *)
(* already failed, and no later step of the publisher (the connection      *)
(* failing, publish resolving to false) changes the response.              *)
(***************************************************************************)
C13_Checkout202WithoutBroker ==
    [][ \A h \in DOMAIN handlers :
          /\ CheckoutPersisted(h) => handlers'[h].status = 202
          /\ handlers[h].status # 0 => handlers'[h].status = handlers[h].status ]_vars

\* a checkout answered 202 whose publish failed because amqp.connect failed
C13_Witness ==
    \E h \in DOMAIN handlers :
        /\ handlers[h].route = "checkout" /\ handlers[h].status = 202
        /\ list.status = "completed"
        /\ publishes[handlers[h].call].result = "false"
        /\ conns.open = {} /\ connection = null

(***************************************************************************)
(* C14.  In every execution of the checkout handler the steps occur in the *)
(* order: persist status 'completed', write the 202 response, invoke       *)
(* publish for 'list.checkout.completed'.  publish is invoked only by a    *)
(* handler that has persisted and then answered 202, and never before the  *)
(* response has been written.                                              *)
(***************************************************************************)
C14_PersistRespondPublish ==
    \A h \in DOMAIN handlers :
        handlers[h].route = "checkout"
        => LET s == handlers[h].steps
           IN  /\ \A i \in DOMAIN s :
                     s[i] = "publish"
                     => \E j \in 1..(i - 1) :
                           /\ s[j] = "respond"
                           /\ \E k \in 1..(j - 1) : s[k] = "persist"
               /\ (handlers[h].call # 0) <=> ("publish" \in StepsOf(h))
               /\ handlers[h].call # 0
                  => /\ handlers[h].status = 202
                     /\ handlers[h].call \in DOMAIN publishes
                     /\ publishes[handlers[h].call].key = CheckoutKey

\* a checkout that persisted, answered and then published with success
C14_Witness ==
    \E h \in DOMAIN handlers :
        /\ handlers[h].steps = <<"persist", "respond", "publish">>
        /\ handlers[h].status = 202 /\ list.status = "completed"
        /\ publishes[handlers[h].call].result = "true"

\* call p of publish failed in this transition
PublishFailed(p) ==
    /\ p \in DOMAIN publishes'
    /\ publishes'[p].result = "false"
    /\ p \in DOMAIN publishes => publishes[p].result = "pending"

(***************************************************************************)
(* C15.  publish never throws and never returns a rejected promise: it     *)
(* resolves to true when the message was handed to the channel and to      *)
(* false on any failure, and after a failure the module's connection and   *)
(* channel are both null or both usable, so that a later publish can       *)
(* reconnect.                                                              *)
(***************************************************************************)
C15_PublishSettlesAndResets ==
    [][ \A p \in DOMAIN publishes' :
          /\ publishes'[p].result \in {"pending", "true", "false"}
          /\ publishes'[p].pc = "done" => publishes'[p].result \in {"true", "false"}
          /\ PublishFailed(p)
             => \/ connection' = null /\ channel' = null
                \/ /\ connection' # null /\ connection'[1] \in conns'.open
                   /\ channel' # null /\ channel'[1] \in conns'.open ]_vars

\* the events that were handed to the channel
Emitted ==
    {publishes[p].body.doc : p \in {q \in DOMAIN publishes :
                                      publishes[q].result = "true"}}

(***************************************************************************)
(* C16.  For every emitted 'list.checkout.completed' event,                *)
(* summary.estimatedTotal equals the sum over the event's items of         *)
(* estimatedPrice x quantity, summary.totalItems the number of items and   *)
(* summary.purchasedItems the number of items flagged purchased, under     *)
(* every interleaving of checkout with add-item, update-item and           *)
(* remove-item requests on the same list.                                  *)
(***************************************************************************)
C16_EventSummaryMatchesItems ==
    \A e \in Emitted :
        /\ e.summary.estimatedTotal = SumOfProducts(e.items)
        /\ e.summary.totalItems = Len(e.items)
        /\ e.summary.purchasedItems =
              Cardinality({i \in DOMAIN e.items : e.items[i].purchased})

\* the items of the event the latest callback was given
CallbackItems == JSONparse(callback.msg.body).value.items

(***************************************************************************)
(* C17.  For every checkout event it processes, the total the analytics    *)
(* consumer reports equals the sum over the event's items of               *)
(* estimatedPrice x quantity (15.20 for the items 2 x 4.50 and 1 x 6.20),  *)
(* i.e. what an independent recomputation from the item snapshot yields.   *)
(***************************************************************************)
C17_ReportedTotalIsSumOfItems ==
    (callback.role = "analytics" /\ ~callback.threw)
    => callback.reported = toFixed(SumOfProducts(CallbackItems))

\* the transition is a run of the consume callback of instance i on the
\* first message of its queue
DeliveredTo(i) ==
    /\ i \in DOMAIN queues /\ i \in DOMAIN queues'
    /\ queues[i] # <<>>
    /\ nsent' = nsent
    /\ callback' # callback \/ queues'[i] # queues[i]
    /\ callback'.instance = i /\ callback'.msg = Head(queues[i])
    /\ Len(workers'[i].pending) >= Len(workers[i].pending)

(***************************************************************************)
(* C18.  When a consumer (analytics or notification) receives a message    *)
(* whose body is not parseable JSON, it negatively acknowledges that       *)
(* message with requeue = false; the message is not put back into its      *)
(* queue and is not kept as pending, so that it is never redelivered; and  *)
(* the consumer keeps consuming: the messages behind it stay in the queue, *)
(* in order, for the same instance.                                        *)
(***************************************************************************)
C18_GarbageIsDiscarded ==
    [][ \A i \in Instances :
          (DeliveredTo(i) /\ Head(queues[i]).body.literal = "garbage")
          => /\ Len(callback'.calls) = 1
             /\ callback'.calls[1].op = "nack"
             /\ ~callback'.calls[1].requeue
             /\ queues'[i] = Tail(queues[i])
             /\ workers'[i] = workers[i] ]_vars

\* the notification worker rejected a body that is not JSON while the next
\* message waits in its queue
C18_Witness ==
    /\ callback.role = "notification"
    /\ callback.msg.body.literal = "garbage"
    /\ callback.calls # <<>> /\ callback.calls[1].op = "nack"
    /\ callback.instance \in DOMAIN queues
    /\ queues[callback.instance] # <<>>
    /\ Head(queues[callback.instance]).body.literal = "object"

\* the transition is a step of a consume callback of instance i
CallbackStepOf(i) ==
    /\ i \in DOMAIN queues /\ i \in DOMAIN queues'
    /\ nsent' = nsent
    /\ callback' # callback
    /\ callback'.instance = i

C20_BroadcastToEveryInstance ==
    [][ /\ nsent' = nsent + 1
           => \E msg \in Messages :
                 \A j \in DOMAIN queues :
                    /\ j \in DOMAIN queues'
                    /\ queues'[j] = IF msg.key = CheckoutKey
                                      THEN Append(queues[j], msg)
                                      ELSE queues[j]
        /\ nsent' = nsent
           => Cardinality({ j \in DOMAIN queues :
                              \/ j \notin DOMAIN queues'
                              \/ queues'[j] # queues[j]
                              \/ workers'[j] # workers[j] }) <= 1 ]_vars

\* one analytics instance has acknowledged its copy of an event while the
\* copies of the other analytics instance and of the notification instance
\* still wait in their queues
C20_Witness ==
    /\ DOMAIN queues = Instances
    /\ callback.instance = "analytics-2"
    /\ callback.msg.key = CheckoutKey /\ callback.msg.body.literal = "object"
    /\ callback.calls # <<>> /\ callback.calls[1].op = "ack"
    /\ queues["analytics-2"] = <<>>
    /\ queues["analytics-1"] = <<callback.msg>>
    /\ queues["notification-1"] = <<callback.msg>>

(***************************************************************************)
(* C28.  The publisher holds at most one broker connection and one channel *)
(* at any time: when several calls of publish overlap while no channel     *)
(* exists, only one connection is established, and no open connection is   *)
(* left that the module does not reference.                                *)
(***************************************************************************)
C28_SingleConnection ==
    /\ Cardinality(conns.open) <= 1
    /\ \A c \in conns.open : connection = <<c>>

(***************************************************************************)
(* A restart of the broker.  Every connection ends.  The exchange is       *)
(* durable and the messages are persistent, but the queue of a worker is   *)
(* declared with assertQueue('', { exclusive: true }): it belongs to the   *)
(* worker's connection and is deleted with it, together with the messages  *)
(* in it.  No worker reconnects: its process ends on the unhandled 'error' *)
(* of the connection or stays without a consumer, and a worker started     *)
(* again declares a new, empty queue.  The publisher loses its connections *)
(* as in ConnectionClosed.                                                 *)
(***************************************************************************)
\* the calls of publish that await createChannel or assertExchange
AwaitingAny == UNION {AwaitingOn(c) : c \in conns.open}

BrokerRestart ==
    /\ queues' = << >>
    /\ workers' = << >>
    /\ conns' = [open |-> {}, listened |-> {}]
    /\ IF conns.listened # {} \/ AwaitingAny # {}
         THEN connection' = null /\ channel' = null
         ELSE UNCHANGED <<connection, channel>>
    /\ publishes' = [p \in DOMAIN publishes |->
                       IF p \in AwaitingAny
                         THEN [publishes[p] EXCEPT !.pc = "done",
                                                   !.result = Caught("closed")]
                         ELSE publishes[p]]
    /\ UNCHANGED <<list, handlers, callback, nsent>>
    /\ UNCHANGED gatewayVars
    /\ UNCHANGED healthVars
    /\ UNCHANGED serviceVars

\* the broker, restarting, and the workers
NextRestart ==
    \/ NextWorkers
    \/ BrokerRestart

SpecRestart == Init /\ [][NextRestart]_vars

(***************************************************************************)
(* C21.  A checkout event that was published and is not yet settled by a   *)
(* consumer survives a restart of the broker: the queue of every consumer  *)
(* instance exists after the restart and still holds the event.            *)
(***************************************************************************)
C21_UnsettledSurvivesRestart ==
    [][ BrokerRestart
        => \A i \in DOMAIN queues :
              queues[i] # <<>>
              => /\ i \in DOMAIN queues'
                 /\ queues'[i] = queues[i] ]_vars

(***************************************************************************)
(* The health monitor of the gateway (startHealthChecks) and the health    *)
(* reporting of the user service.  The constructor's timer calls           *)
(* startHealthChecks after 3 s; it creates the interval and the            *)
(* warm-up timer.  A run takes the entries of listServices() once and      *)
(* probes them in turn, awaiting each probe.                               *)
(***************************************************************************)
\* setInterval(..., 30000)
HealthInterval == 30000

\* setTimeout(..., 5000), the warm-up run
WarmUpDelay == 5000

\* axios.get(`${service.url}/health`, { timeout: 5000 })
ProbeTimeout == 5000

\* the periodic runs the model lets start
MaxTicks == 2

\* the inbound requests the model lets arrive while the monitor runs
MaxHealthRequests == 1

\* how a probe ends: 200 from /health, 503 from /health, connection refused,
\* the axios timeout
ProbeOutcomes == {"200", "503", "ECONNREFUSED", "ECONNABORTED"}

\* axios.get resolves for a 2xx status only; everything else lands in catch
ProbeHealthy(o) == o = "200"

\* the order of Object.entries(services): the order of registration
ProbeOrder == <<"user-service", "item-service", "list-service">>

\* Object.entries(serviceRegistry.listServices()): the names to probe
Snapshot(entries) ==
    LET IsListed(n) == n \in DOMAIN listServices(entries)
    IN  SelectSeq(ProbeOrder, IsListed)

\* a run as its callback starts
NewRun(kind, entries) ==
    [kind |-> kind, todo |-> Snapshot(entries), calls |-> <<>>]

\* a loop that leaves at the first probe that fails
RunAfter_StopsOnFailure(run, healthy) ==
    [run EXCEPT !.todo = IF healthy THEN Tail(@) ELSE <<>>,
                !.calls = Append(@, [name |-> Head(run.todo), healthy |-> healthy])]

\* one turn of the for loop: try { await probe; updateHealth(name, true) }
\* catch { updateHealth(name, false) }, then the next entry
RunAfter(run, healthy) ==
    [run EXCEPT !.todo = Tail(@),
                !.calls = Append(@, [name |-> Head(run.todo), healthy |-> healthy])]

\* the longest a run can take: every probe runs into its timeout
MaxRunTime == Cardinality(ServiceNames) * ProbeTimeout

\* the constructor's timer fires: startHealthChecks()
StartHealthChecks ==
    /\ ~monitor.started
    /\ monitor' = [monitor EXCEPT !.started = TRUE]
    /\ UNCHANGED <<services, healthCall>>
    /\ UNCHANGED gatewayVars
    /\ UNCHANGED eventVars
    /\ UNCHANGED serviceVars

\* the run the monitor holds after a timer callback started one
Started(kind) ==
    LET run == NewRun(kind, services)
    IN  IF run.todo = <<>> THEN [monitor EXCEPT !.finished = run]
                           ELSE [monitor EXCEPT !.run = run]

\* the warm-up timer fires, WarmUpDelay after startHealthChecks
WarmUp ==
    /\ monitor.started
    /\ ~monitor.warmedUp
    /\ monitor' = [Started("warm-up") EXCEPT !.warmedUp = TRUE]
    /\ UNCHANGED <<services, healthCall>>
    /\ UNCHANGED gatewayVars
    /\ UNCHANGED eventVars
    /\ UNCHANGED serviceVars

\* the interval fires.  Timers fire in the order of their due times, so the
\* warm-up timer has fired before; and the run before has ended, because it
\* takes at most MaxRunTime and started at least HealthInterval - WarmUpDelay
\* earlier.
Tick ==
    /\ monitor.started
    /\ monitor.ticks < MaxTicks
    /\ WarmUpDelay < HealthInterval => monitor.warmedUp
    /\ MaxRunTime < HealthInterval - WarmUpDelay => monitor.run = NoRun
    /\ monitor.run = NoRun
    /\ monitor' = [Started("periodic") EXCEPT !.ticks = @ + 1]
    /\ UNCHANGED <<services, healthCall>>
    /\ UNCHANGED gatewayVars
    /\ UNCHANGED eventVars
    /\ UNCHANGED serviceVars

\* the probe the run awaits settles with outcome o, updateHealth is called
\* and the loop goes on to the next entry or ends
ProbeSettles(o) ==
    /\ monitor.run # NoRun
    /\ LET name == Head(monitor.run.todo)
           run == RunAfter(monitor.run, ProbeHealthy(o))
       IN  /\ services' = updateHealth(services, name, ProbeHealthy(o), now)
           /\ healthCall' = [by |-> "monitor", name |-> name,
                             healthy |-> ProbeHealthy(o), outcome |-> o]
           /\ monitor' = IF run.todo = <<>>
                           THEN [monitor EXCEPT !.run = NoRun, !.finished = run]
                           ELSE [monitor EXCEPT !.run = run]
    /\ UNCHANGED gatewayVars
    /\ UNCHANGED eventVars
    /\ UNCHANGED serviceVars

\* the interval of the running user service: updateHealth(serviceName, true)
HealthReport ==
    /\ "user-service" \in registered
    /\ services' = updateHealth(services, "user-service", TRUE, now)
    /\ healthCall' = [by |-> "user-service", name |-> "user-service",
                      healthy |-> TRUE, outcome |-> "none"]
    /\ UNCHANGED monitor
    /\ UNCHANGED gatewayVars
    /\ UNCHANGED eventVars
    /\ UNCHANGED serviceVars

\* the registry with the health monitor, the user service coming and going
NextHealth ==
    \/ StartHealthChecks
    \/ WarmUp
    \/ Tick
    \/ \E o \in ProbeOutcomes : ProbeSettles(o)
    \/ HealthReport
    \/ \E s \in ServiceNames : Register(s)
    \/ \E s \in ServiceNames : Unregister(s)
    \/ Advance(ProbeTimeout)

SpecHealth == Init /\ [][NextHealth]_vars

\* the gateway under traffic while the first run of its health monitor goes on
NextDecoupled ==
    \/ StartHealthChecks
    \/ WarmUp
    \/ \E o \in ProbeOutcomes : ProbeSettles(o)
    \/ \E s \in ServiceNames : ProxyStart(s, MaxHealthRequests)
    \/ \E r \in BagToSet(inflight) :
          \E o \in BreakerOutcomes(r, now) : ProxyComplete(r, o)

SpecDecoupled == Init /\ [][NextDecoupled]_vars

\* a probe never stays pending past its timeout
SpecHealthLive == SpecHealth /\ WF_vars(\E o \in ProbeOutcomes : ProbeSettles(o))

(***************************************************************************)
(* C22.  discover(name) fails for every name that is not currently         *)
(* registered (unregistered since its registration), whatever other names  *)
(* are registered and whatever register, unregister and updateHealth calls *)
(* were made, a call of updateHealth for the missing name included.        *)
(***************************************************************************)
C22_DiscoverFailsForUnregistered ==
    \A n \in ServiceNames :
        n \notin registered => ~discover(DOMAIN services, n)

\* the user service is unregistered, its probe settled after that, and the
\* entry of another service was updated
C22_Witness ==
    /\ "user-service" \notin registered
    /\ healthCall.by = "monitor"
    /\ healthCall.name = "user-service"
    /\ \E n \in registered : ~services[n].healthy
    /\ ~discover(DOMAIN services, "user-service")

(***************************************************************************)
(* C23.  updateHealth(name, healthy) changes only the health flag and the  *)
(* check timestamp of the entry of `name`: no entry is created or removed, *)
(* every address and every other entry stay as they are, and for a name    *)
(* without an entry (one unregistered while its probe was in flight)       *)
(* nothing changes.                                                        *)
(***************************************************************************)
C23_UpdateHealthFrame ==
    [][ registered' = registered
        => /\ DOMAIN services' = DOMAIN services
           /\ \A n \in DOMAIN services :
                 /\ services'[n].url = services[n].url
                 /\ n # healthCall'.name => services'[n] = services[n]
           /\ healthCall'.name \notin DOMAIN services => services' = services
      ]_vars

\* a second run found the user service gone while its probe was in flight,
\* after the first run had marked the item service
C23_Witness ==
    /\ healthCall.by = "monitor"
    /\ healthCall.name = "user-service"
    /\ "user-service" \notin DOMAIN services
    /\ monitor.ticks > 0
    /\ services["item-service"].lastHealthCheck > 0
    /\ services["item-service"].url = ServiceUrl("item-service")

(***************************************************************************)
(* C24.  On every run of the health monitor, the warm-up run and each      *)
(* periodic run, the services registered when the run starts are probed    *)
(* one after the other and updateHealth is called once for each, with true *)
(* when the probe returned and false when it failed or timed out; a        *)
(* failing probe does not stop the run, every run that starts ends, and    *)
(* the warm-up run starts before the first periodic run.                   *)
(***************************************************************************)
C24_EveryServiceProbedOnce ==
    /\ [][ /\ (monitor.run = NoRun /\ monitor'.run # NoRun)
              => /\ {monitor'.run.todo[k] : k \in DOMAIN monitor'.run.todo} = registered
                 /\ Len(monitor'.run.todo) = Cardinality(registered)
                 /\ monitor'.run.calls = <<>>
           /\ (monitor.run # NoRun /\ monitor' # monitor)
              => LET run == IF monitor'.run = NoRun THEN monitor'.finished
                                                    ELSE monitor'.run
                 IN  /\ run.todo = Tail(monitor.run.todo)
                     /\ run.calls = Append(monitor.run.calls,
                                           [name |-> Head(monitor.run.todo),
                                            healthy |-> healthCall'.outcome = "200"])
                     /\ healthCall'.name = Head(monitor.run.todo)
                     /\ healthCall'.healthy = (healthCall'.outcome = "200")
                     /\ healthCall'.outcome \in {"200", "503", "ECONNREFUSED",
                                                "ECONNABORTED"}
                     /\ monitor'.run = NoRun <=> Tail(monitor.run.todo) = <<>>
           /\ monitor'.ticks > monitor.ticks => monitor.warmedUp
         ]_vars
    /\ (monitor.run # NoRun) ~> (monitor.run = NoRun)

\* a periodic run ended after three probes, the first of which had failed
C24_Witness ==
    /\ monitor.finished.kind = "periodic"
    /\ monitor.run = NoRun
    /\ Len(monitor.finished.calls) = 3
    /\ ~monitor.finished.calls[1].healthy
    /\ monitor.finished.calls[3].healthy

(***************************************************************************)
(* C25.  Health state and breaker state are decoupled: a step of the       *)
(* health monitor changes no circuit breaker, a step of proxyRequest (with *)
(* its recordFailure or resetCircuitBreaker) changes no registry entry,    *)
(* and proxyRequest forwards to a registered service whose circuit is not  *)
(* open whether the health flag of that service is true or false.          *)
(***************************************************************************)
C25_HealthAndBreakerDecoupled ==
    [][ /\ (monitor' # monitor \/ healthCall' # healthCall)
           => circuitBreakers' = circuitBreakers
        /\ last' # last => services' = services
        /\ \A s \in ServiceNames :
              (StartOf(s) /\ s \in registered /\ ~last'.circuitOpen)
              => /\ last'.resolved
                 /\ last'.downstreamCalls = 1
                 /\ ~last'.responded ]_vars

\* a request is forwarded to a service the monitor has just marked unhealthy
C25_Witness ==
    /\ last.kind = "start"
    /\ last.resolved
    /\ ~services[last.service].healthy
    /\ healthCall.name = last.service

(***************************************************************************)
(* GET /api/dashboard (getDashboard).  The handler asks the user service,  *)
(* the list service and the item service in turn, each inside its own      *)
(* try/catch, and answers with what it got.  Amounts are in cents.         *)
(***************************************************************************)
\* the Authorization headers of a request: none, one of another scheme, a
\* bearer token
AuthHeaders == {"", "Basic dXNlcg==", "Bearer token"}

\* authHeader.startsWith('Bearer ')
startsWithBearer(header) == header = "Bearer token"

\* how an axios call of the handler ends; axios resolves for a 2xx status only
DashboardOutcomes == {"200", "401", "500", "ECONNREFUSED", "ECONNABORTED"}

\* the parts of the handler that call a service, in order, and their services
Stages == <<"user", "lists", "categories">>

ServiceOf(stage) ==
    CASE stage = "user" -> "user-service"
      [] stage = "lists" -> "list-service"
      [] stage = "categories" -> "item-service"

\* the body of POST /auth/validate for a valid token
ValidateBody ==
    [success |-> TRUE,
     data |-> [user |-> [id |-> "owner", username |-> "owner",
                         email |-> "owner@example.com"]]]

\* the body of GET /lists: the lists of the user
ListsBody ==
    << [id |-> 1, status |-> "active", summary |-> calculateListSummary(ExampleItems)],
       [id |-> 2, status |-> "completed",
        summary |-> [calculateListSummary(SubSeq(ExampleItems, 1, 1))
                       EXCEPT !.purchasedItems = 1]],
       [id |-> 3, status |-> "archived", summary |-> NoSummary],
       [id |-> 4, status |-> "active", summary |-> NoSummary] >>

\* the body of GET /categories
CategoriesBody == <<"food", "drinks", "cleaning", "hygiene", "bakery", "pets">>

\* array.slice(0, n)
slice(array, n) == SubSeq(array, 1, IF Len(array) < n THEN Len(array) ELSE n)

\* the number of lists with a status
CountStatus(lists, status) ==
    Cardinality({k \in DOMAIN lists : lists[k].status = status})

\* Math.round(a / b) for a >= 0, b > 0
RoundDiv(a, b) == (2 * a + b) \div (2 * b)

\* the sum of a field of the summaries
RECURSIVE SumSummary(_, _)
SumSummary(lists, field) ==
    IF lists = <<>> THEN 0
    ELSE Head(lists).summary[field] + SumSummary(Tail(lists), field)

\* an inner catch that throws the error on to the outer catch
Warned_Rethrows(d, error) ==
    [d EXCEPT !.failed = TRUE, !.warnings = Append(@, error)]

\* catch (error) { console.warn(..., error.message) }: the handler goes on
\* with what it has
Warned(d, error) == [d EXCEPT !.warnings = Append(@, error)]

\* the rest of a try block after its axios call resolved
Fetched(d, stage) ==
    CASE stage = "user" ->
           [d EXCEPT !.userInfo = ValidateBody.data.user,
                     !.fetched = @ \cup {stage}]
      [] stage = "lists" ->
           [d EXCEPT !.userLists = ListsBody,
                     !.listStats = [total |-> Len(ListsBody),
                                    active |-> CountStatus(ListsBody, "active"),
                                    completed |-> CountStatus(ListsBody, "completed"),
                                    archived |-> CountStatus(ListsBody, "archived")],
                     !.fetched = @ \cup {stage}]
      [] stage = "categories" ->
           [d EXCEPT !.popularCategories = slice(CategoriesBody, 5),
                     !.fetched = @ \cup {stage}]

\* dashboardData, from the locals of the handler
DashboardData(d) ==
    LET totalItems == SumSummary(d.userLists, "totalItems")
        totalPurchased == SumSummary(d.userLists, "purchasedItems")
        estimatedTotal == SumSummary(d.userLists, "estimatedTotal")
    IN  [user |-> d.userInfo,
         lists |-> d.listStats,
         items |-> [total |-> totalItems, purchased |-> totalPurchased,
                    remaining |-> totalItems - totalPurchased,
                    completionRate |-> IF totalItems > 0
                                         THEN RoundDiv(100 * totalPurchased, totalItems)
                                         ELSE 0],
         financial |-> [estimatedTotal |-> estimatedTotal,
                        averagePerItem |-> IF totalItems > 0
                                             THEN RoundDiv(estimatedTotal, totalItems)
                                             ELSE 0],
         recentActivity |-> [k \in DOMAIN slice(d.userLists, 3) |->
                               [id |-> d.userLists[k].id,
                                status |-> d.userLists[k].status,
                                itemsCount |-> d.userLists[k].summary.totalItems]],
         popularCategories |-> d.popularCategories]

\* the end of the handler: res.json(...), or the 500 of the outer catch
Respond(d) ==
    IF d.failed
      THEN [d EXCEPT !.pc = "done", !.status = 500]
      ELSE [d EXCEPT !.pc = "done", !.status = 200, !.data = DashboardData(d)]

\* the handler from the k-th part on, up to its next await or to its end:
\* a part whose service discover does not resolve is left through its catch
RECURSIVE Proceed(_, _, _)
Proceed(d, k, entries) ==
    IF k > Len(Stages) THEN Respond(d)
    ELSE IF discover(DOMAIN entries, ServiceOf(Stages[k]))
           THEN [d EXCEPT !.pc = Stages[k]]
           ELSE Proceed(Warned(d, "ServiceNotFoundError"), k + 1, entries)

\* the position of a part among the parts
StageIndex(stage) == CHOOSE k \in DOMAIN Stages : Stages[k] = stage

\* a request for GET /api/dashboard arrives: 401 without a bearer token
DashboardArrive(auth) ==
    /\ dashboard.pc \in {"idle", "done"}
    /\ dashboard' =
          IF ~startsWithBearer(auth)
            THEN [NoDashboard EXCEPT !.pc = "done", !.auth = auth, !.status = 401]
            ELSE Proceed([NoDashboard EXCEPT !.auth = auth], 1, services)
    /\ UNCHANGED <<catalog, itemHandlers, visitors, forwarded, users, userHandlers>>
    /\ UNCHANGED gatewayVars
    /\ UNCHANGED eventVars
    /\ UNCHANGED healthVars

\* the axios call the handler awaits settles with outcome o
DashboardSettles(o) ==
    /\ dashboard.pc \notin {"idle", "done"}
    /\ LET stage == dashboard.pc
           after == IF o = "200" THEN Fetched(dashboard, stage)
                                 ELSE Warned(dashboard, o)
       IN  dashboard' = Proceed(after, StageIndex(stage) + 1, services)
    /\ UNCHANGED <<catalog, itemHandlers, visitors, forwarded, users, userHandlers>>
    /\ UNCHANGED gatewayVars
    /\ UNCHANGED eventVars
    /\ UNCHANGED healthVars

\* the gateway answering dashboard requests, the user service coming and going
NextDashboard ==
    \/ \E auth \in AuthHeaders : DashboardArrive(auth)
    \/ \E o \in DashboardOutcomes : DashboardSettles(o)
    \/ \E s \in ServiceNames : Register(s)
    \/ \E s \in ServiceNames : Unregister(s)

SpecDashboard == Init /\ [][NextDashboard]_vars

\* the empty defaults of the parts of the dashboard
DefaultsWhereNotFetched(d) ==
    /\ "user" \notin d.fetched => d.data.user = null
    /\ "lists" \notin d.fetched
       => /\ d.data.lists = [total |-> 0, active |-> 0, completed |-> 0, archived |-> 0]
          /\ d.data.items = [total |-> 0, purchased |-> 0, remaining |-> 0,
                             completionRate |-> 0]
          /\ d.data.financial = [estimatedTotal |-> 0, averagePerItem |-> 0]
          /\ d.data.recentActivity = <<>>
    /\ "categories" \notin d.fetched => d.data.popularCategories = <<>>

(***************************************************************************)
(* C26.  GET /api/dashboard answers 401 when the request has no            *)
(* Authorization header starting with 'Bearer ', and otherwise 200         *)
(* whichever of the user, list and item service cannot be resolved, cannot *)
(* be reached or fails, the parts that could not be fetched being at their *)
(* empty defaults.                                                         *)
(***************************************************************************)
C26_DashboardToleratesFailures ==
    dashboard.pc = "done"
    => IF dashboard.auth \in {"", "Basic dXNlcg=="}
         THEN dashboard.status = 401 /\ dashboard.data = null
         ELSE /\ dashboard.status = 200
              /\ DefaultsWhereNotFetched(dashboard)

\* a dashboard was answered with the lists alone: the user service was not
\* registered and the item service failed
C26_Witness ==
    /\ dashboard.pc = "done"
    /\ dashboard.auth = "Bearer token"
    /\ dashboard.fetched = {"lists"}
    /\ "user-service" \notin registered
    /\ dashboard.status = 200
    /\ dashboard.data.lists.total = 4
    /\ dashboard.data.financial.estimatedTotal = 2420
    /\ dashboard.warnings = <<"ServiceNotFoundError", "ECONNABORTED">>

(***************************************************************************)
(* The middlewares of the list service, validateUserId and                 *)
(* checkListOwnership, for requests that do not carry the owner's token.   *)
(* Every route on /lists/:id runs both before its handler.  The list of    *)
(* the model belongs to "owner".                                           *)
(***************************************************************************)
\* the routes on /lists/:id
ListRoutes ==
    {"read", "update", "delete", "checkout", "addItem", "updateItem",
     "removeItem", "summary"}

\* what a request carries as Authorization: no header, a header of another
\* scheme, a bearer token that is not a signed token, an expired token, a
\* signed token without id, a valid token of another user
Credentials == {"none", "basic", "malformed", "expired", "no-id", "intruder"}

\* req.query.userId || req.body.userId: absent, or a user id
RequestUserIds == {"", "intruder", "owner"}

\* the user the stored list belongs to
ListOwner == "owner"

\* jwt.verify(token, secret): the decoded payload, or the error it throws
jwtVerify(cred) ==
    CASE cred = "malformed" -> [error |-> "JsonWebTokenError", id |-> ""]
      [] cred = "expired" -> [error |-> "TokenExpiredError", id |-> ""]
      [] cred = "no-id" -> [error |-> "", id |-> ""]
      [] OTHER -> [error |-> "", id |-> cred]

\* validateUserId: the status it answers, or 0 and req.userId when it calls next()
validateUserId(cred, requestUserId) ==
    IF cred \in {"none", "basic"} THEN [status |-> 401, userId |-> ""]
    ELSE LET decoded == jwtVerify(cred)
         IN  IF decoded.error \in {"TokenExpiredError", "JsonWebTokenError"}
               THEN [status |-> 401, userId |-> ""]
             ELSE IF decoded.error # "" THEN [status |-> 500, userId |-> ""]
             ELSE IF decoded.id = "" THEN [status |-> 401, userId |-> ""]
             ELSE IF requestUserId # "" /\ requestUserId # decoded.id
               THEN [status |-> 403, userId |-> ""]
             ELSE [status |-> 0, userId |-> decoded.id]

\* an ownership test that lets every authenticated user through
checkListOwnership_AnyUser(userId, found, owner) ==
    IF ~found THEN 404 ELSE 0

\* checkListOwnership after `await listDb.findById(id)`: the status it
\* answers, or 0 when it calls next()
checkListOwnership(userId, found, owner) ==
    IF ~found THEN 404
    ELSE IF owner # userId THEN 403
    ELSE 0

\* the requests of strangers the model lets arrive
MaxVisitors == 1

\* a request for a route on /lists/:id arrives and validateUserId runs, up
\* to the response or to `await listDb.findById(id)`
Visit(route, cred, requestUserId) ==
    /\ Len(visitors) < MaxVisitors
    /\ LET v == validateUserId(cred, requestUserId)
       IN  visitors' = Append(visitors,
              [route |-> route, cred |-> cred, userId |-> v.userId,
               pc |-> IF v.status = 0 THEN "checking" ELSE "done",
               status |-> v.status])
    /\ UNCHANGED <<dashboard, catalog, itemHandlers, forwarded, users, userHandlers>>
    /\ UNCHANGED gatewayVars
    /\ UNCHANGED eventVars
    /\ UNCHANGED healthVars

\* findById settles in checkListOwnership: the response, or next() and the
\* handler of the route starts on the list as a request of the owner does
OwnershipChecked(k) ==
    /\ k \in DOMAIN visitors
    /\ visitors[k].pc = "checking"
    /\ LET status == checkListOwnership(visitors[k].userId, TRUE, ListOwner)
       IN  /\ visitors' = [visitors EXCEPT ![k].pc = "done", ![k].status = status]
           /\ handlers' =
                IF status = 0
                  THEN Append(handlers,
                         [route |-> visitors[k].route, arg |-> 0, pc |-> "owned",
                          reqList |-> NoList, status |-> 0, steps |-> <<>>,
                          call |-> 0])
                  ELSE handlers
    /\ UNCHANGED <<list, connection, channel, conns, publishes, queues, workers,
                   callback, nsent>>
    /\ UNCHANGED <<dashboard, catalog, itemHandlers, forwarded, users, userHandlers>>
    /\ UNCHANGED gatewayVars
    /\ UNCHANGED healthVars

\* the list service with its owner checking out and adding items while
\* strangers ask for the same list
NextAccess ==
    \/ \E route \in ListRoutes : \E cred \in Credentials :
          \E requestUserId \in RequestUserIds : Visit(route, cred, requestUserId)
    \/ \E k \in 1..MaxVisitors : OwnershipChecked(k)
    \/ Arrive("checkout", 0, MaxItemCheckouts)
    \/ \E h \in 1..(MaxVisitors + MaxItemCheckouts) : \E ok \in BOOLEAN : Checkout(h, ok)
    \/ \E p \in 1..(MaxVisitors + MaxItemCheckouts) : ConnectSettles(p, TRUE)
    \/ \E p \in 1..(MaxVisitors + MaxItemCheckouts) : CreateChannelSettles(p, TRUE)
    \/ \E p \in 1..(MaxVisitors + MaxItemCheckouts) : AssertExchangeSettles(p, TRUE)

SpecAccess == Init /\ [][NextAccess]_vars

\* a step of the middlewares for the k-th stranger
VisitorStep(k) ==
    /\ k \in DOMAIN visitors'
    /\ k \in DOMAIN visitors => visitors'[k] # visitors[k]

(***************************************************************************)
(* C27.  A request for any route on /lists/:id made with a valid token of  *)
(* a user who does not own the list is answered 403, and one made without  *)
(* a bearer token or with an invalid token is answered 401; in both cases  *)
(* the handler of the route does not run: the list is unchanged and no     *)
(* event is published.                                                     *)
(***************************************************************************)
C27_StrangersAreRejected ==
    [][ \A k \in 1..MaxVisitors :
          VisitorStep(k)
          => /\ list' = list
             /\ handlers' = handlers
             /\ publishes' = publishes
             /\ queues' = queues
             /\ visitors'[k].pc = "done"
                => visitors'[k].status =
                     IF visitors'[k].cred = "intruder" THEN 403 ELSE 401 ]_vars

\* a valid token of another user was turned away from the checkout by the
\* ownership test, while the list was still active; its owner then checked
\* it out
C27_Witness ==
    /\ Len(visitors) = 1
    /\ visitors[1].route = "checkout" /\ visitors[1].cred = "intruder"
    /\ visitors[1].pc = "done" /\ visitors[1].status = 403
    /\ visitors[1].userId = "intruder"
    /\ list.status = "completed"
    /\ Len(publishes) = 1
    /\ Len(handlers) = 1

(***************************************************************************)
(* The item service: POST /items and PUT /items/:id.  The service has its  *)
(* own instance of shared/rabbitmq; readItems and writeItems catch their   *)
(* errors and never throw.                                                 *)
(***************************************************************************)
\* the requests the model lets arrive at the item service
MaxItemServiceRequests == 2

\* the ids PUT /items/:id is asked for: the seed item, and an id of no item
PutIds == {1, 9}

\* uuidv4() for the h-th request: an id of no other item
uuidv4(h) == 10 + h

\* 'item.created' and 'item.updated'
ItemCreatedKey == <<"item", "created">>
ItemUpdatedKey == <<"item", "updated">>

\* items.findIndex(item => item.id === id), 0 for -1
findItemIndex(items, id) ==
    IF \E i \in DOMAIN items : items[i].id = id
      THEN CHOOSE i \in DOMAIN items : items[i].id = id
      ELSE 0

\* the statements of both handlers after `await writeItems(items)`: the call
\* of rabbit.publish(...).catch(...), then res.json
ItemSteps == <<"write", "publish", "respond">>

\* a request arrives, up to `await readItems()`
ItemArrive(route, id) ==
    /\ Len(itemHandlers) < MaxItemServiceRequests
    /\ itemHandlers' = Append(itemHandlers,
          [route |-> route,
           id |-> IF route = "createItem" THEN uuidv4(Len(itemHandlers) + 1) ELSE id,
           pc |-> "reading", items |-> <<>>, status |-> 0, steps |-> <<>>,
           call |-> 0])
    /\ UNCHANGED <<dashboard, catalog, visitors, forwarded, users, userHandlers>>
    /\ UNCHANGED gatewayVars
    /\ UNCHANGED eventVars
    /\ UNCHANGED healthVars

\* readItems settles: POST pushes the new item, PUT answers 404 or merges the
\* body into the item; then `await writeItems(items)`
ItemsRead(h) ==
    /\ h \in DOMAIN itemHandlers
    /\ itemHandlers[h].pc = "reading"
    /\ LET r == itemHandlers[h]
           i == findItemIndex(catalog, r.id)
       IN  itemHandlers' =
             IF r.route = "createItem"
               THEN [itemHandlers EXCEPT
                       ![h].pc = "writing",
                       ![h].items = Append(catalog,
                            [id |-> r.id, name |-> "new", category |-> "food"])]
             ELSE IF i = 0
               THEN [itemHandlers EXCEPT ![h].pc = "done", ![h].status = 404,
                                         ![h].steps = <<"respond">>]
               ELSE [itemHandlers EXCEPT
                       ![h].pc = "writing",
                       ![h].items = [catalog EXCEPT ![i].name = "renamed"]]
    /\ UNCHANGED <<dashboard, catalog, visitors, forwarded, users, userHandlers>>
    /\ UNCHANGED gatewayVars
    /\ UNCHANGED eventVars
    /\ UNCHANGED healthVars

\* writeItems settles (`ok`: the items were written) and the handler runs to
\* its end: rabbit.publish is called, then the response is written
ItemsStored(h, ok) ==
    /\ h \in DOMAIN itemHandlers
    /\ itemHandlers[h].pc = "writing"
    /\ LET r == itemHandlers[h]
           item == r.items[findItemIndex(r.items, r.id)]
       IN  /\ catalog' = IF ok THEN r.items ELSE catalog
           /\ itemHandlers' = [itemHandlers EXCEPT
                 ![h].pc = "done",
                 ![h].items = <<>>,
                 ![h].status = IF r.route = "createItem" THEN 201 ELSE 200,
                 ![h].steps = ItemSteps,
                 ![h].call = Len(publishes) + 1]
           /\ publish(IF r.route = "createItem" THEN ItemCreatedKey
                                                ELSE ItemUpdatedKey, item)
    /\ UNCHANGED <<list, handlers, connection, channel, conns, workers,
                   callback, nsent>>
    /\ UNCHANGED <<dashboard, visitors, forwarded, users, userHandlers>>
    /\ UNCHANGED gatewayVars
    /\ UNCHANGED healthVars

\* the item service and its publisher
NextItemService ==
    \/ ItemArrive("createItem", 0)
    \/ \E id \in PutIds : ItemArrive("updateItem", id)
    \/ \E h \in 1..MaxItemServiceRequests : ItemsRead(h)
    \/ \E h \in 1..MaxItemServiceRequests : \E ok \in BOOLEAN : ItemsStored(h, ok)
    \/ \E p \in 1..MaxItemServiceRequests : \E ok \in BOOLEAN : ConnectSettles(p, ok)
    \/ \E p \in 1..MaxItemServiceRequests : CreateChannelSettles(p, TRUE)
    \/ \E p \in 1..MaxItemServiceRequests : AssertExchangeSettles(p, TRUE)

SpecItemService == Init /\ [][NextItemService]_vars

(***************************************************************************)
(* C29.  In the item service, for POST /items and PUT /items/:id, publish  *)
(* of 'item.created' / 'item.updated' is invoked only after the response   *)
(* of the request has been sent: in the steps of a handler, every call of  *)
(* publish comes after the response.                                       *)
(***************************************************************************)
C29_ItemPublishAfterResponse ==
    \A h \in DOMAIN itemHandlers :
        LET s == itemHandlers[h].steps
        IN  \A i \in DOMAIN s :
               s[i] = "publish" => \E j \in 1..(i - 1) : s[j] = "respond"

(***************************************************************************)
(* C30.  When a checkout event carries no userEmail and the user service   *)
(* is registered, is reached and holds the user of the event's userId, the *)
(* notification consumer addresses the receipt to the email address stored *)
(* for that user, not to the user id.                                      *)
(***************************************************************************)
C30_ReceiptGoesToStoredEmail ==
    (/\ callback.role = "notification"
     /\ callback.lookup = "answered"
     /\ JSONparse(callback.msg.body).value.userId \in StoredUsers)
    => callback.email = StoredEmail(JSONparse(callback.msg.body).value.userId)

(***************************************************************************)
(* The URL a proxied request is sent to.  A URL is the sequence of the     *)
(* fragments no operation of the code splits: the path segments with their *)
(* slash, '?', '&' and the parameters.                                     *)
(***************************************************************************)
\* the mounts of setupRoutes, in order
Mounts ==
    << [path |-> <<"/api", "/auth">>, service |-> "user-service", to |-> "/auth"],
       [path |-> <<"/api", "/users">>, service |-> "user-service", to |-> "/users"],
       [path |-> <<"/api", "/items">>, service |-> "item-service", to |-> "/items"],
       [path |-> <<"/api", "/lists">>, service |-> "list-service", to |-> "/lists"] >>

\* the fragments that start with a slash
PathFragments == {"/", "/api", "/auth", "/users", "/items", "/lists", "/7"}

\* what follows the mount path in an inbound URL
Rests ==
    { <<>>, <<"/">>, <<"/7">>, <<"/7", "/items">>, <<"/7", "/">>,
      <<"/7", "/api", "/items">> }

\* the parameters of an inbound URL, with distinct names
Queries == { <<>>, <<"a=1">>, <<"b=2">>, <<"a=1", "b=2">>, <<"b=2", "a=1">> }

\* the parameters joined with '&'
RECURSIVE serialize(_)
serialize(params) ==
    IF params = <<>> THEN <<>>
    ELSE IF Len(params) = 1 THEN params
    ELSE <<Head(params), "&">> \o serialize(Tail(params))

\* req.originalUrl for each inbound request
InboundUrls ==
    { Mounts[m].path \o rest \o (IF q = <<>> THEN <<>> ELSE <<"?">> \o serialize(q)) :
        m \in DOMAIN Mounts, rest \in Rests, q \in Queries }

\* the service of the first mount whose path the URL is under
MountOf(u) ==
    Mounts[CHOOSE m \in DOMAIN Mounts :
              /\ SubSeq(u, 1, 2) = Mounts[m].path
              /\ \A k \in 1..(m - 1) : SubSeq(u, 1, 2) # Mounts[k].path]

\* String.prototype.startsWith
startsWith(str, pat) ==
    Len(str) >= Len(pat) /\ SubSeq(str, 1, Len(pat)) = pat

\* String.prototype.indexOf, 0 for -1
indexOf(str, pat) ==
    LET hits == { i \in 1..(Len(str) - Len(pat) + 1) :
                    SubSeq(str, i, i + Len(pat) - 1) = pat }
    IN  IF hits = {} THEN 0 ELSE CHOOSE i \in hits : \A j \in hits : i <= j

\* String.prototype.replace with a string pattern: the first occurrence
replace(str, pat, rep) ==
    LET i == indexOf(str, pat)
    IN  IF i = 0 THEN str
        ELSE SubSeq(str, 1, i - 1) \o rep \o SubSeq(str, i + Len(pat), Len(str))

\* targetPath of proxyRequest
targetPath(serviceName, originalPath) ==
    LET mapped ==
          IF serviceName = "user-service"
            THEN IF startsWith(originalPath, <<"/api", "/auth">>)
                   THEN replace(originalPath, <<"/api", "/auth">>, <<"/auth">>)
                 ELSE IF startsWith(originalPath, <<"/api", "/users">>)
                   THEN replace(originalPath, <<"/api", "/users">>, <<"/users">>)
                 ELSE originalPath
          ELSE IF serviceName = "item-service"
            THEN replace(originalPath, <<"/api", "/items">>, <<"/items">>)
          ELSE IF serviceName = "list-service"
            THEN replace(originalPath, <<"/api", "/lists">>, <<"/lists">>)
          ELSE originalPath
        slashed == IF mapped # <<>> /\ mapped[1] \in PathFragments
                     THEN mapped ELSE <<"/">> \o mapped
    IN  IF slashed = <<"/">> \/ slashed = <<>>
          THEN CASE serviceName = "user-service" -> <<"/users">>
                 [] serviceName = "item-service" -> <<"/items">>
                 [] serviceName = "list-service" -> <<"/lists">>
                 [] OTHER -> slashed
          ELSE slashed

\* req.query, as express parses it from the URL: the parameters after '?'
reqQuery(u) ==
    LET i == indexOf(u, <<"?">>)
    IN  IF i = 0 THEN <<>>
        ELSE SelectSeq(SubSeq(u, i + 1, Len(u)), LAMBDA f : f # "&")

\* the path of a URL: what precedes '?'
reqPath(u) ==
    LET i == indexOf(u, <<"?">>)
    IN  IF i = 0 THEN u ELSE SubSeq(u, 1, i - 1)

\* buildURL of axios: the parameters are appended to the URL, after '?' or,
\* when the URL has one, after '&'
buildURL(url, params) ==
    IF params = <<>> THEN url
    ELSE url \o (IF indexOf(url, <<"?">>) = 0 THEN <<"?">> ELSE <<"&">>)
             \o serialize(params)

\* proxyRequest, from `const originalPath` to config.params: the URL and the
\* parameters of the config, for a request whose service was discovered
ProxyForward(u) ==
    /\ u \in InboundUrls
    /\ LET s == MountOf(u).service
       IN  /\ ~isCircuitOpen(circuitBreakers, s, now).result
           /\ discover(DOMAIN services, s)
           /\ forwarded' = [service |-> s, originalUrl |-> u,
                            url |-> targetPath(s, u),
                            params |-> reqQuery(u)]
    /\ UNCHANGED <<dashboard, catalog, itemHandlers, visitors, users, userHandlers>>
    /\ UNCHANGED gatewayVars
    /\ UNCHANGED eventVars
    /\ UNCHANGED healthVars

NextForward == \E u \in InboundUrls : ProxyForward(u)

SpecForward == Init /\ [][NextForward]_vars

\* the URL the service receives for the latest forwarded request
Received == buildURL(forwarded.url, forwarded.params)

\* how many times parameter p occurs among the parameters of URL u
Occurrences(u, p) == Len(SelectSeq(reqQuery(u), LAMBDA f : f = p))

(***************************************************************************)
(* C31.  For every inbound URL under a gateway prefix, the path the        *)
(* service receives is the inbound path with the gateway prefix replaced   *)
(* by the service prefix and the rest unchanged, never empty nor '/', and  *)
(* each query parameter of the inbound request reaches the service exactly *)
(* once.                                                                   *)
(***************************************************************************)
C31_PathRewrittenQueryKept ==
    forwarded # NoForward =>
        LET u == forwarded.originalUrl
            inbound == reqPath(u)
        IN  /\ reqPath(Received) =
                  <<MountOf(u).to>> \o SubSeq(inbound, 3, Len(inbound))
            /\ reqPath(Received) \notin {<<>>, <<"/">>}
            /\ \A p \in {"a=1", "b=2"} :
                  Occurrences(Received, p) = Occurrences(u, p)

(***************************************************************************)
(* C32.  In every reachable state and for every service S, if the open     *)
(* flag of S's breaker is true then S's failure count is at least 3, and   *)
(* at least three failures were recorded for S since the last recorded     *)
(* success or auto-recovery of S.                                          *)
(***************************************************************************)
C32_OpenImpliesThreeFailures ==
    \A s \in ServiceNames :
        BreakerOpen(circuitBreakers, s)
        => /\ Failures(circuitBreakers, s) >= 3
           /\ streak[s] >= 3
           /\ streak[s] = Failures(circuitBreakers, s)

\* a request that was in flight when the circuit opened has failed as well:
\* the circuit is open with four failures counted
C32_Witness ==
    \E s \in ServiceNames :
        /\ BreakerOpen(circuitBreakers, s)
        /\ Failures(circuitBreakers, s) = 4
        /\ last.kind = "complete" /\ last.service = s

\* the transition is the first part of a proxyRequest for s that started no
\* downstream call
RejectedOf(s) == StartOf(s) /\ last'.downstreamCalls = 0

(***************************************************************************)
(* C33.  As claimed: a proxied request that makes no downstream call,      *)
(* because the circuit is open or because the service is not found,        *)
(* invokes neither recordFailure nor resetCircuitBreaker, and leaves the   *)
(* failure count and the last-failure time of its service unchanged.       *)
(***************************************************************************)
C33_NoCallNoBreakerChange ==
    [][\A s \in ServiceNames :
          RejectedOf(s)
          => /\ last'.breakerCalls = <<>>
             /\ Failures(circuitBreakers', s) = Failures(circuitBreakers, s)
             /\ LastFailure(circuitBreakers', s) = LastFailure(circuitBreakers, s)]_vars

(***************************************************************************)
(* C33 amended.  A proxied request that makes no downstream call invokes   *)
(* neither recordFailure nor resetCircuitBreaker and leaves the            *)
(* last-failure time unchanged.  A request rejected by the open circuit    *)
(* changes nothing of the breaker, so it never extends the cooldown.  A    *)
(* request for a service that is not found leaves the failure count        *)
(* unchanged, except that its isCircuitOpen query, made 300,000 ms or more *)
(* after the last failure of an open circuit, resets the count to 0 and    *)
(* closes the circuit; it never raises the count nor opens the circuit.    *)
(***************************************************************************)
C33_NoCallNeverCountsNorExtends ==
    [][\A s \in ServiceNames :
          RejectedOf(s)
          => /\ last'.breakerCalls = <<>>
             /\ LastFailure(circuitBreakers', s) = LastFailure(circuitBreakers, s)
             /\ last'.circuitOpen
                => BreakerFields(circuitBreakers', s) = BreakerFields(circuitBreakers, s)
             /\ Failures(circuitBreakers', s) =
                  IF /\ BreakerOpen(circuitBreakers, s)
                     /\ now - LastFailure(circuitBreakers, s) >= Cooldown
                    THEN 0
                    ELSE Failures(circuitBreakers, s)
             /\ BreakerOpen(circuitBreakers', s) => BreakerOpen(circuitBreakers, s)]_vars

\* a request for a service that is no longer registered, whose open circuit
\* has cooled down: it is answered "not found" and its query has reset the count
C33_Witness ==
    /\ last.kind = "start" /\ last.downstreamCalls = 0
    /\ ~last.circuitOpen /\ last.wasOpen
    /\ last.service \notin DOMAIN services
    /\ Failures(circuitBreakers, last.service) = 0
    /\ now - LastFailure(circuitBreakers, last.service) >= Cooldown

(***************************************************************************)
(* The gateway under traffic for two services that answer every request,   *)
(* with a status of each class.                                            *)
(***************************************************************************)
MaxStatusRequests == 4

\* the statuses a service answers with
AnsweredStatuses == {200, 404, 500, 503}

\* the responses the awaited axios call can end with
StatusOutcomes ==
    { [kind |-> "response", status |-> st,
       body |-> [json |-> TRUE, text |-> <<"{}">>], code |-> "none"] :
        st \in AnsweredStatuses }

NextStatuses ==
    \/ \E s \in {"item-service", "list-service"} : ProxyStart(s, MaxStatusRequests)
    \/ \E r \in BagToSet(inflight) : \E o \in StatusOutcomes : ProxyComplete(r, o)

SpecStatuses == Init /\ [][NextStatuses]_vars

(***************************************************************************)
(* C34.  A downstream response with status 500 or above is passed through  *)
(* to the caller and recorded as a failure for the circuit breaker: the    *)
(* third such response from S with no success between them opens S's       *)
(* circuit.  A response with any status under 500, 4xx included, is        *)
(* passed through and recorded as a success: it sets S's failure count to  *)
(* 0 and closes S's circuit.                                               *)
(***************************************************************************)
C34_ServerErrorsCountAsFailures ==
    [][\A s \in ServiceNames :
          (CompleteOf(s) /\ last'.outcome.kind = "response")
          => /\ last'.response.status = last'.outcome.status
             /\ IF last'.outcome.status >= 500
                  THEN /\ last'.breakerCalls =
                            <<[op |-> "recordFailure", service |-> s]>>
                       /\ Failures(circuitBreakers', s) =
                            Failures(circuitBreakers, s) + 1
                       /\ streak'[s] = streak[s] + 1
                       /\ streak'[s] >= 3 => BreakerOpen(circuitBreakers', s)
                  ELSE /\ last'.breakerCalls =
                            <<[op |-> "resetCircuitBreaker", service |-> s]>>
                       /\ Failures(circuitBreakers', s) = 0
                       /\ ~BreakerOpen(circuitBreakers', s)]_vars

\* the third 5xx response in a row has opened the circuit and was passed on
C34_Witness ==
    /\ last.kind = "complete"
    /\ last.outcome.kind = "response" /\ last.outcome.status = 503
    /\ last.response.status = 503
    /\ streak[last.service] = 3
    /\ BreakerOpen(circuitBreakers, last.service)

(***************************************************************************)
(* C35.  An 'error' or 'close' event of a broker connection clears the     *)
(* publisher's connection and channel only if that connection is the one   *)
(* currently held: when a connection that carries the listeners closes     *)
(* while the module holds another, open connection, the module's           *)
(* connection and channel stay as they are.                                *)
(***************************************************************************)
C35_StaleEventKeepsCurrent ==
    [][\A c \in conns.open :
          (/\ c \notin conns'.open
           /\ c \in conns.listened
           /\ AwaitingOn(c) = {}
           /\ connection # null
           /\ connection[1] # c
           /\ connection[1] \in conns.open)
          => /\ connection' = connection
             /\ channel' = channel]_vars

\* the checkout handler h runs from the settling of listDb.update to its end
CheckoutEnds(h) ==
    /\ h \in DOMAIN handlers
    /\ handlers[h].route = "checkout"
    /\ handlers[h].pc = "owned" /\ handlers'[h].pc = "done"

\* the calls of publish made so far for 'list.checkout.completed'
CheckoutCalls == {p \in DOMAIN publishes : publishes[p].key = CheckoutKey}

(***************************************************************************)
(* C36.  If persisting the 'completed' status fails during checkout, the   *)
(* handler answers 500 and publish is not invoked for that request.  A     *)
(* 'list.checkout.completed' event is published only by a request whose    *)
(* status update was persisted and whose 202 response was written, and at  *)
(* most once per request: every call of publish belongs to exactly one     *)
(* such request, and every request has at most one call.                   *)
(***************************************************************************)
C36_NoEventWithoutPersist ==
    [][/\ \A h \in DOMAIN handlers :
             CheckoutEnds(h)
             => LET steps == handlers'[h].steps
                    persisted == \E i \in DOMAIN steps : steps[i] = "persist"
                IN  IF persisted
                      THEN /\ list'.status = "completed"
                           /\ handlers'[h].status = 202
                           /\ Len(publishes') = Len(publishes) + 1
                           /\ handlers'[h].call = Len(publishes')
                           /\ publishes'[Len(publishes')].key = CheckoutKey
                      ELSE /\ handlers'[h].status = 500
                           /\ handlers'[h].call = 0
                           /\ Len(publishes') = Len(publishes)
                           /\ list' = list
       /\ Len(publishes') # Len(publishes)
          => \E h \in DOMAIN handlers : CheckoutEnds(h)
       /\ \A p \in CheckoutCalls :
             Cardinality({h \in DOMAIN handlers :
                            /\ handlers[h].call = p
                            /\ handlers[h].status = 202}) = 1]_vars

\* one checkout whose update failed was answered 500, another was persisted,
\* answered 202 and made the only call of publish
C36_Witness ==
    /\ Len(publishes) = 1
    /\ \E h, g \in DOMAIN handlers :
          /\ handlers[h].route = "checkout" /\ handlers[h].pc = "done"
          /\ handlers[h].status = 500 /\ handlers[h].call = 0
          /\ handlers[g].route = "checkout" /\ handlers[g].pc = "done"
          /\ handlers[g].status = 202 /\ handlers[g].call = 1

\* the ids of the items the stored list holds
StoredItemIds == {list.items[i].id : i \in DOMAIN list.items}

\* the ids that a completed DELETE /lists/:id/items/:itemId removed
RemovedItemIds ==
    {handlers[h].arg : h \in {g \in DOMAIN handlers :
                                /\ handlers[g].route = "removeItem"
                                /\ handlers[g].status = 200}}

(***************************************************************************)
(* C37.  When add-item, update-item or remove-item requests on the same    *)
(* list overlap, the stored list after all of them have completed reflects *)
(* every change: it holds the item of every add-item request answered 201  *)
(* unless a remove-item request removed it, holds no removed item, and its *)
(* stored summary equals calculateListSummary of its stored items.         *)
(***************************************************************************)
C37_NoLostUpdate ==
    (\A h \in DOMAIN handlers : handlers[h].pc = "done")
    => /\ \A h \in DOMAIN handlers :
             (handlers[h].route = "addItem" /\ handlers[h].status = 201)
             => (h \in StoredItemIds \/ h \in RemovedItemIds)
       /\ StoredItemIds \cap RemovedItemIds = {}
       /\ list.summary = calculateListSummary(list.items)

(***************************************************************************)
(* The user service: POST /auth/register and PUT /users/:id.  The id of    *)
(* the user a register request creates is the number of the request.       *)
(***************************************************************************)
MaxUserRequests == 3

\* the email addresses of the request bodies
Emails == {"ana@example.com", "Ana@example.com", "bob@example.com"}

\* String.prototype.toLowerCase
toLowerCase(email) == IF email = "Ana@example.com" THEN "ana@example.com" ELSE email

\* users.some(user => user.email === email), negated
isEmailUnique(stored, email) ==
    ~ \E i \in DOMAIN stored : stored[i].email = email

\* usersDb.findById: the index of the user, 0 when there is none
findUserById(stored, id) ==
    IF \E i \in DOMAIN stored : stored[i].id = id
      THEN CHOOSE i \in DOMAIN stored : stored[i].id = id
      ELSE 0

\* register, from its entry to `await this.isEmailUnique(email)`; the body
\* holds email, username and password
RegisterArrive(email) ==
    /\ Len(userHandlers) < MaxUserRequests
    /\ userHandlers' = Append(userHandlers,
                         [route |-> "register", id |-> Len(userHandlers) + 1,
                          email |-> email, pc |-> "checking", status |-> 0])
    /\ UNCHANGED <<dashboard, catalog, itemHandlers, visitors, forwarded, users>>
    /\ UNCHANGED gatewayVars
    /\ UNCHANGED eventVars
    /\ UNCHANGED healthVars

\* register: usersDb.find() resolved; an email in use is answered 400,
\* otherwise the handler awaits bcrypt.hash
EmailChecked(h) ==
    /\ h \in DOMAIN userHandlers
    /\ userHandlers[h].route = "register" /\ userHandlers[h].pc = "checking"
    /\ userHandlers' =
         IF isEmailUnique(users, userHandlers[h].email)
           THEN [userHandlers EXCEPT ![h].pc = "hashing"]
           ELSE [userHandlers EXCEPT ![h].pc = "done", ![h].status = 400]
    /\ UNCHANGED <<dashboard, catalog, itemHandlers, visitors, forwarded, users>>
    /\ UNCHANGED gatewayVars
    /\ UNCHANGED eventVars
    /\ UNCHANGED healthVars

\* register: bcrypt.hash resolved; the user object passes validateUserSchema
\* and usersDb.create is called
PasswordHashed(h) ==
    /\ h \in DOMAIN userHandlers
    /\ userHandlers[h].route = "register" /\ userHandlers[h].pc = "hashing"
    /\ userHandlers' = [userHandlers EXCEPT ![h].pc = "creating"]
    /\ UNCHANGED <<dashboard, catalog, itemHandlers, visitors, forwarded, users>>
    /\ UNCHANGED gatewayVars
    /\ UNCHANGED eventVars
    /\ UNCHANGED healthVars

\* register: usersDb.create settled; the user is stored and the request
\* answered 201, or the request is answered 500
UserCreated(h, ok) ==
    /\ h \in DOMAIN userHandlers
    /\ userHandlers[h].route = "register" /\ userHandlers[h].pc = "creating"
    /\ users' = IF ok THEN Append(users, [id |-> userHandlers[h].id,
                                          email |-> userHandlers[h].email])
                      ELSE users
    /\ userHandlers' = [userHandlers EXCEPT ![h].pc = "done",
                                            ![h].status = IF ok THEN 201 ELSE 500]
    /\ UNCHANGED <<dashboard, catalog, itemHandlers, visitors, forwarded>>
    /\ UNCHANGED gatewayVars
    /\ UNCHANGED eventVars
    /\ UNCHANGED healthVars

\* updateUser with the token of user id and an email in the body, from its
\* entry to `await this.usersDb.findById(id)`
UpdateUserArrive(id, email) ==
    /\ Len(userHandlers) < MaxUserRequests
    /\ findUserById(users, id) # 0
    /\ userHandlers' = Append(userHandlers,
                         [route |-> "updateUser", id |-> id, email |-> email,
                          pc |-> "finding", status |-> 0])
    /\ UNCHANGED <<dashboard, catalog, itemHandlers, visitors, forwarded, users>>
    /\ UNCHANGED gatewayVars
    /\ UNCHANGED eventVars
    /\ UNCHANGED healthVars

\* updateUser: findById resolved with the user; usersDb.update is called with
\* the email in lower case
UserFound(h) ==
    /\ h \in DOMAIN userHandlers
    /\ userHandlers[h].route = "updateUser" /\ userHandlers[h].pc = "finding"
    /\ userHandlers' = [userHandlers EXCEPT
                          ![h].pc = "updating",
                          ![h].email = toLowerCase(userHandlers[h].email)]
    /\ UNCHANGED <<dashboard, catalog, itemHandlers, visitors, forwarded, users>>
    /\ UNCHANGED gatewayVars
    /\ UNCHANGED eventVars
    /\ UNCHANGED healthVars

\* updateUser: usersDb.update resolved; the email is stored and the request
\* answered 200
UserUpdated(h) ==
    /\ h \in DOMAIN userHandlers
    /\ userHandlers[h].route = "updateUser" /\ userHandlers[h].pc = "updating"
    /\ users' = [users EXCEPT ![findUserById(users, userHandlers[h].id)].email =
                                  userHandlers[h].email]
    /\ userHandlers' = [userHandlers EXCEPT ![h].pc = "done", ![h].status = 200]
    /\ UNCHANGED <<dashboard, catalog, itemHandlers, visitors, forwarded>>
    /\ UNCHANGED gatewayVars
    /\ UNCHANGED eventVars
    /\ UNCHANGED healthVars

NextUsers ==
    \/ \E email \in Emails : RegisterArrive(email)
    \/ \E h \in 1..MaxUserRequests : EmailChecked(h)
    \/ \E h \in 1..MaxUserRequests : PasswordHashed(h)
    \/ \E h \in 1..MaxUserRequests : \E ok \in BOOLEAN : UserCreated(h, ok)
    \/ \E id \in 1..MaxUserRequests : \E email \in Emails : UpdateUserArrive(id, email)
    \/ \E h \in 1..MaxUserRequests : UserFound(h)
    \/ \E h \in 1..MaxUserRequests : UserUpdated(h)

SpecUsers == Init /\ [][NextUsers]_vars

(***************************************************************************)
(* C38.  No two stored users ever have the same email address, after any   *)
(* sequence and any interleaving of register and update-user requests; a   *)
(* register request answered 400 has stored nothing.                       *)
(***************************************************************************)
C38_EmailsUnique ==
    /\ \A i, j \in DOMAIN users :
          i # j => users[i].email # users[j].email
    /\ \A h \in DOMAIN userHandlers :
          (userHandlers[h].route = "register" /\ userHandlers[h].status = 400)
          => findUserById(users, userHandlers[h].id) = 0

\* the lookup of the latest notification callback ended in a failure: the
\* user service was not resolved, was not reached, or answered with an error
LookupFailed ==
    /\ callback.role = "notification"
    /\ \/ callback.lookup \in {"unresolved", "failed"}
       \/ /\ callback.lookup = "answered"
          /\ GetUsersId(WorkerAuthorization,
                        JSONparse(callback.msg.body).value.userId).status >= 400

(***************************************************************************)
(* C39.  In the notification consumer, a failure of the user lookup        *)
(* (user-service not resolvable, unreachable or answering with an error)   *)
(* never causes the message to be rejected: the callback addresses the     *)
(* receipt to the event's userId and makes one channel call, ack.          *)
(***************************************************************************)
C39_LookupFailureIsAcked ==
    LookupFailed
    => /\ ~callback.awaiting
       /\ callback.email = "userId"
       /\ callback.calls = <<[op |-> "ack", requeue |-> FALSE]>>

\* the user service was registered and the call to it failed: the message was
\* acknowledged and the receipt went to the userId
C39_Witness ==
    /\ callback.role = "notification"
    /\ callback.lookup = "failed"
    /\ callback.email = "userId"
    /\ callback.calls = <<[op |-> "ack", requeue |-> FALSE]>>

=============================================================================
